---- MODULE Spec2Model ----
(***************************************************************************)
(* FBref scraping pipeline of main.py: extract_tables (direct parse and    *)
(* comment-embedded fallback), format_dataframe_columns (header            *)
(* flattening), formatear_datos (canonical renaming and text cleaning),    *)
(* the positional merge of creacion_df_general_fbref and                   *)
(* creacion_df_porteros_fbref, procesar_posiciones, the numeric conversion *)
(* of convertir_columnas_numericas_*, and the module-level statements that *)
(* build the datasets of the analysis tab.                                 *)
(*                                                                         *)
(* Python strings are TLA+ strings; a character is a string of length 1.   *)
(* A DataFrame is a record with its column labels, its row index labels    *)
(* and its rows of cells.  A cell is a text cell [str |-> s], an integer   *)
(* cell [int |-> n], a parsed number, NaN or None.                         *)
(***************************************************************************)
EXTENDS Integers, Sequences, FiniteSets, TLC

VARIABLES pc, call, fetches, dfs, ret, globals

vars == <<pc, call, fetches, dfs, ret, globals>>

(***************************************************************************)
(* Values                                                                  *)
(***************************************************************************)
None == [kind |-> "None"]

Raise(exc) == [kind |-> "Raise", exc |-> exc]

\* A DataFrame.  multi = TRUE: columns is a two-level MultiIndex, each label
\* a pair <<level 0 (group), level 1 (field)>>.
DataFrame(multi, columns, index, data) ==
    [kind |-> "DataFrame", multi |-> multi, columns |-> columns,
     index |-> index, data |-> data]

\* the module-level names of the script before any of them is bound
NoGlobals ==
    [df_general_final |-> None, df_jugadores_total_liga |-> None,
     df_goalkeepers_final |-> None, df_porteros_liga |-> None,
     posicion_seleccionada |-> None, df_porteros_final |-> None,
     df_def |-> None, df_mid |-> None, df_fw |-> None]

Str(s) == [str |-> s]

IntCell(n) == [int |-> n]

NaN == [nan |-> TRUE]

NoneCell == [none |-> TRUE]

IsStr(c) == "str" \in DOMAIN c

IsInt(c) == "int" \in DOMAIN c

IsNumber(c) == "frac" \in DOMAIN c

IsMissing(c) == c = NaN \/ c = NoneCell

Range(s) == {s[i] : i \in DOMAIN s}

\* RangeIndex(0..n-1), the index reset_index(drop=True) and the DataFrame
\* constructor give
RangeIndex(n) == [i \in 1..n |-> i - 1]

(***************************************************************************)
(* formatear_datos: the static lookup from flattened key to canonical name *)
(***************************************************************************)
mapeo_items ==
  <<
    <<"Player (Unnamed: 1_level_0 - Standard Stats)", "Player">>,
    <<"Nation (Unnamed: 2_level_0 - Standard Stats)", "Nacionalidad">>,
    <<"Pos (Unnamed: 3_level_0 - Standard Stats)", "Posicion">>,
    <<"Squad (Unnamed: 4_level_0 - Standard Stats)", "Equipo">>,
    <<"Comp (Unnamed: 5_level_0 - Standard Stats)", "Competicion">>,
    <<"Age (Unnamed: 6_level_0 - Standard Stats)", "Edad">>,
    <<"Born (Unnamed: 7_level_0 - Standard Stats)", "Nacimiento">>,
    <<"MP (Playing Time - Standard Stats)", "Partidos jugados">>,
    <<"Starts (Playing Time - Standard Stats)", "Alineaciones">>,
    <<"Min (Playing Time - Standard Stats)", "Minutos jugados">>,
    <<"90s (Playing Time - Standard Stats)", "Minutos jugados/90">>,
    <<"Gls (Performance - Standard Stats)", "Goles">>,
    <<"Ast (Performance - Standard Stats)", "Asistencias">>,
    <<"G+A (Performance - Standard Stats)", "Goles + Asistencias">>,
    <<"G-PK (Performance - Standard Stats)", "Goles sin penaltis">>,
    <<"PK (Performance - Standard Stats)", "Penalits creados">>,
    <<"PKatt (Performance - Standard Stats)", "Penaltis intentados">>,
    <<"CrdY (Performance - Standard Stats)", "Tarjetas amarillas">>,
    <<"CrdR (Performance - Standard Stats)", "Tarjetas rojas">>,
    <<"xG (Expected - Standard Stats)", "xG">>,
    <<"npxG (Expected - Standard Stats)", "xG sin penaltis">>,
    <<"xAG (Expected - Standard Stats)", "xAG">>,
    <<"npxG+xAG (Expected - Standard Stats)", "xG + xAG sin penaltis">>,
    <<"PrgC (Progression - Standard Stats)", "Acarreos progresivos">>,
    <<"PrgP (Progression - Standard Stats)", "Pases progresivos">>,
    <<"PrgR (Progression - Standard Stats)", "Pases recividos progresivos">>,
    <<"Gls (Per 90 Minutes - Standard Stats)", "Goles/90">>,
    <<"Ast (Per 90 Minutes - Standard Stats)", " Asistencias/90">>,
    <<"G+A (Per 90 Minutes - Standard Stats)", "Goles + Asistencias/90">>,
    <<"G-PK (Per 90 Minutes - Standard Stats)", "Goles sin penaltis/90">>,
    <<"G+A-PK (Per 90 Minutes - Standard Stats)", "Goles + Asistencias sin penaltis/90">>,
    <<"xG (Per 90 Minutes - Standard Stats)", "xG/90">>,
    <<"xAG (Per 90 Minutes - Standard Stats)", "xAG/90">>,
    <<"xG+xAG (Per 90 Minutes - Standard Stats)", "xG+xAG/90">>,
    <<"npxG (Per 90 Minutes - Standard Stats)", "xG sin penaltis/90">>,
    <<"npxG+xAG (Per 90 Minutes - Standard Stats)", "xG + xAG sin penalits/90">>,
    <<"Player (Unnamed: 1_level_0 - Shooting)", "Player">>,
    <<"Nation (Unnamed: 2_level_0 - Shooting)", "Nacionalidad">>,
    <<"Pos (Unnamed: 3_level_0 - Shooting)", "Posicion">>,
    <<"Squad (Unnamed: 4_level_0 - Shooting)", "Equipo">>,
    <<"Comp (Unnamed: 5_level_0 - Shooting)", "Competicion">>,
    <<"Age (Unnamed: 6_level_0 - Shooting)", "Edad">>,
    <<"Born (Unnamed: 7_level_0 - Shooting)", "Año">>,
    <<"90s (Unnamed: 8_level_0 - Shooting)", "Minutos jugados/90">>,
    <<"Gls (Standard - Shooting)", "Goles">>,
    <<"Sh (Standard - Shooting)", "Tiros totales">>,
    <<"SoT (Standard - Shooting)", "Tiros a puerta">>,
    <<"SoT% (Standard - Shooting)", "% Tiros a puerta">>,
    <<"Sh/90 (Standard - Shooting)", "Tiros totales/90">>,
    <<"SoT/90 (Standard - Shooting)", "Tiros a puerta/90">>,
    <<"G/Sh (Standard - Shooting)", "Goles/Tiros totales">>,
    <<"G/SoT (Standard - Shooting)", "Goles/Tiros a puerta">>,
    <<"Dist (Standard - Shooting)", "Distancia promedio tiros">>,
    <<"FK (Standard - Shooting)", "Tiros libres">>,
    <<"PK (Standard - Shooting)", "Penaltis anotados">>,
    <<"PKatt (Standard - Shooting)", "Penaltis intentados">>,
    <<"xG (Expected - Shooting)", "xG">>,
    <<"npxG (Expected - Shooting)", "xG sin penaltis">>,
    <<"npxG/Sh (Expected - Shooting)", "xG sin penaltis/Tiros totales">>,
    <<"G-xG (Expected - Shooting)", "Goles-xG">>,
    <<"np:G-xG (Expected - Shooting)", "Goles sin penaltis/xG">>,
    <<"Player (Unnamed: 1_level_0 - Passing)", "Player">>,
    <<"Nation (Unnamed: 2_level_0 - Passing)", "Nacionalidad">>,
    <<"Pos (Unnamed: 3_level_0 - Passing)", "Posicion">>,
    <<"Squad (Unnamed: 4_level_0 - Passing)", "Equipo">>,
    <<"Comp (Unnamed: 5_level_0 - Passing)", "Competicion">>,
    <<"Age (Unnamed: 6_level_0 - Passing)", "Edad">>,
    <<"Born (Unnamed: 7_level_0 - Passing)", "Año">>,
    <<"90s (Unnamed: 8_level_0 - Passing)", "Minutos jugados/90">>,
    <<"Cmp (Total - Passing)", "Pases completados">>,
    <<"Att (Total - Passing)", "Pases intentados">>,
    <<"Cmp% (Total - Passing)", "% Pases completados">>,
    <<"TotDist (Total - Passing)", "Distancia total pases">>,
    <<"PrgDist (Total - Passing)", "Distancia pases progresivos">>,
    <<"Cmp (Short - Passing)", "Pases cortos completados">>,
    <<"Att (Short - Passing)", "Pases cortos intentados">>,
    <<"Cmp% (Short - Passing)", "% pases cortos completados">>,
    <<"Cmp (Medium - Passing)", "Pases medios completados">>,
    <<"Att (Medium - Passing)", "Pases medios intentados">>,
    <<"Cmp% (Medium - Passing)", "% pases medios completados">>,
    <<"Cmp (Long - Passing)", "Pases largos completados">>,
    <<"Att (Long - Passing)", "Pases largos intentados">>,
    <<"Cmp% (Long - Passing)", "% pases largos completados">>,
    <<"Ast (Unnamed: 23_level_0 - Passing)", "Asistencias">>,
    <<"xAG (Unnamed: 24_level_0 - Passing)", "xAG">>,
    <<"xA (Expected - Passing)", "xA">>,
    <<"A-xAG (Expected - Passing)", "Asistencias-xAG">>,
    <<"KP (Unnamed: 27_level_0 - Passing)", "Pases clave">>,
    <<"1/3 (Unnamed: 28_level_0 - Passing)", "Pases último tercio campo">>,
    <<"PPA (Unnamed: 29_level_0 - Passing)", "Pases área de penalti">>,
    <<"CrsPA (Unnamed: 30_level_0 - Passing)", "Centros área de penalti">>,
    <<"PrgP (Unnamed: 31_level_0 - Passing)", "Pases progresivos">>,
    <<"Player (Unnamed: 1_level_0 - Pass Types)", "Player">>,
    <<"Nation (Unnamed: 2_level_0 - Pass Types)", "Nacionalidad">>,
    <<"Pos (Unnamed: 3_level_0 - Pass Types)", "Posicion">>,
    <<"Squad (Unnamed: 4_level_0 - Pass Types)", "Equipo">>,
    <<"Comp (Unnamed: 5_level_0 - Pass Types)", "Competicion">>,
    <<"Age (Unnamed: 6_level_0 - Pass Types)", "Edad">>,
    <<"Born (Unnamed: 7_level_0 - Pass Types)", "Año">>,
    <<"90s (Unnamed: 8_level_0 - Pass Types)", "Minutos jugados/90">>,
    <<"Att (Unnamed: 9_level_0 - Pass Types)", "Pases intentados">>,
    <<"Live (Pass Types - Pass Types)", "Pases balón vivo">>,
    <<"Dead (Pass Types - Pass Types)", "Pases balón muerto">>,
    <<"FK (Pass Types - Pass Types)", "Pases de tiros libres">>,
    <<"TB (Pass Types - Pass Types)", "Pases largos">>,
    <<"Sw (Pass Types - Pass Types)", "Cambios de juego (pases)">>,
    <<"Crs (Pass Types - Pass Types)", "Pases cruzados">>,
    <<"TI (Pass Types - Pass Types)", "Saques de banda">>,
    <<"CK (Pass Types - Pass Types)", "Saques esquina">>,
    <<"In (Corner Kicks - Pass Types)", "Saques esquina hacia dentro">>,
    <<"Out (Corner Kicks - Pass Types)", "Saques de esquina hacia fuera">>,
    <<"Str (Corner Kicks - Pass Types)", "Saques de esquina rectos">>,
    <<"Cmp (Outcomes - Pass Types)", "Pases completados">>,
    <<"Off (Outcomes - Pass Types)", "Pases fuera de juego">>,
    <<"Blocks (Outcomes - Pass Types)", "Pases bloqueados">>,
    <<"Player (Unnamed: 1_level_0 - Goal and Shot Creation)", "Player">>,
    <<"Nation (Unnamed: 2_level_0 - Goal and Shot Creation)", "Nacionalidad">>,
    <<"Pos (Unnamed: 3_level_0 - Goal and Shot Creation)", "Posicion">>,
    <<"Squad (Unnamed: 4_level_0 - Goal and Shot Creation)", "Equipo">>,
    <<"Comp (Unnamed: 5_level_0 - Goal and Shot Creation)", "Competicion">>,
    <<"Age (Unnamed: 6_level_0 - Goal and Shot Creation)", "Edad">>,
    <<"Born (Unnamed: 7_level_0 - Goal and Shot Creation)", "Año">>,
    <<"90s (Unnamed: 8_level_0 - Goal and Shot Creation)", "Minutos jugados/90">>,
    <<"SCA (SCA - Goal and Shot Creation)", "Acciones creadores de tiros">>,
    <<"SCA90 (SCA - Goal and Shot Creation)", "Acciones creadores de tiros/90">>,
    <<"PassLive (SCA Types - Goal and Shot Creation)", "SCA (Pases de balón vivo)">>,
    <<"PassDead (SCA Types - Goal and Shot Creation)", "SCA (Pases de balón muerto)">>,
    <<"TO (SCA Types - Goal and Shot Creation)", "SCA (Toma)">>,
    <<"Sh (SCA Types - Goal and Shot Creation)", "SCA (Tiros)">>,
    <<"Fld (SCA Types - Goal and Shot Creation)", "SCA (Faltas recibidas)">>,
    <<"Def (SCA Types - Goal and Shot Creation)", "SCA (Acción defensiva)">>,
    <<"GCA (GCA - Goal and Shot Creation)", "Acciones creadores de goles">>,
    <<"GCA90 (GCA - Goal and Shot Creation)", "Acciones creadores de goles/90">>,
    <<"PassLive (GCA Types - Goal and Shot Creation)", "GCA (Pases de balón vivos)">>,
    <<"PassDead (GCA Types - Goal and Shot Creation)", "GCA (Pases de balón muerto)">>,
    <<"TO (GCA Types - Goal and Shot Creation)", "GCA (Toma)">>,
    <<"Sh (GCA Types - Goal and Shot Creation)", "GCA (Tiros)">>,
    <<"Fld (GCA Types - Goal and Shot Creation)", "GCA (Faltas recibidas)">>,
    <<"Def (GCA Types - Goal and Shot Creation)", "GCA (Acción defensiva)">>,
    <<"Player (Unnamed: 1_level_0 - Defensive Actions)", "Player">>,
    <<"Nation (Unnamed: 2_level_0 - Defensive Actions)", "Nacionalidad">>,
    <<"Pos (Unnamed: 3_level_0 - Defensive Actions)", "Posicion">>,
    <<"Squad (Unnamed: 4_level_0 - Defensive Actions)", "Equipo">>,
    <<"Comp (Unnamed: 5_level_0 - Defensive Actions)", "Competicion">>,
    <<"Age (Unnamed: 6_level_0 - Defensive Actions)", "Edad">>,
    <<"Born (Unnamed: 7_level_0 - Defensive Actions)", "Año">>,
    <<"90s (Unnamed: 8_level_0 - Defensive Actions)", "Minutos jugados/90">>,
    <<"Tkl (Tackles - Defensive Actions)", "Derribos">>,
    <<"TklW (Tackles - Defensive Actions)", "Derribos ganados">>,
    <<"Def 3rd (Tackles - Defensive Actions)", "Derribos (Def 3rd)">>,
    <<"Mid 3rd (Tackles - Defensive Actions)", "Derribos (Mid 3rd)">>,
    <<"Att 3rd (Tackles - Defensive Actions)", "Derribos (Att 3rd)">>,
    <<"Tkl (Challenges - Defensive Actions)", "Regateadores tackleados">>,
    <<"Att (Challenges - Defensive Actions)", "Regateos intentados">>,
    <<"Tkl% (Challenges - Defensive Actions)", "% Dribladorees derribados">>,
    <<"Lost (Challenges - Defensive Actions)", "Desafios perdidos">>,
    <<"Blocks (Blocks - Defensive Actions)", "Bloqueos">>,
    <<"Sh (Blocks - Defensive Actions)", "Tiros bloqueados">>,
    <<"Pass (Blocks - Defensive Actions)", "Pases bloqueados">>,
    <<"Int (Unnamed: 21_level_0 - Defensive Actions)", "Intercepciones">>,
    <<"Tkl+Int (Unnamed: 22_level_0 - Defensive Actions)", "Derribos + Intercepciones">>,
    <<"Clr (Unnamed: 23_level_0 - Defensive Actions)", "Despejes">>,
    <<"Err (Unnamed: 24_level_0 - Defensive Actions)", "Errores defensivos">>,
    <<"Player (Unnamed: 1_level_0 - Possession)", "Player">>,
    <<"Nation (Unnamed: 2_level_0 - Possession)", "Nacionalidad">>,
    <<"Pos (Unnamed: 3_level_0 - Possession)", "Posicion">>,
    <<"Squad (Unnamed: 4_level_0 - Possession)", "Equipo">>,
    <<"Comp (Unnamed: 5_level_0 - Possession)", "Competicion">>,
    <<"Age (Unnamed: 6_level_0 - Possession)", "Edad">>,
    <<"Born (Unnamed: 7_level_0 - Possession)", "Año">>,
    <<"90s (Unnamed: 8_level_0 - Possession)", "Minutos jugados/90">>,
    <<"Touches (Touches - Possession)", "Toques">>,
    <<"Def Pen (Touches - Possession)", "Toques (Def pen)">>,
    <<"Def 3rd (Touches - Possession)", "Toques (Def 3rd)">>,
    <<"Mid 3rd (Touches - Possession)", "Toques (Mid 3rd)">>,
    <<"Att 3rd (Touches - Possession)", "Toques (Att 3rd)">>,
    <<"Att Pen (Touches - Possession)", "Toques (Att pen)">>,
    <<"Live (Touches - Possession)", "Toques (Pelota activa)">>,
    <<"Att (Take-Ons - Possession)", "Tomas Intentados">>,
    <<"Succ (Take-Ons - Possession)", "Tomas exitosas">>,
    <<"Succ% (Take-Ons - Possession)", "% Tomas exitosas">>,
    <<"Tkld (Take-Ons - Possession)", "Veces regateos">>,
    <<"Tkld% (Take-Ons - Possession)", "% veces regateos">>,
    <<"Carries (Carries - Possession)", "Total de transportes balón">>,
    <<"TotDist (Carries - Possession)", "Distancia total trasporte balón">>,
    <<"PrgDist (Carries - Possession)", "Distancia trasporte balón progresivo">>,
    <<"PrgC (Carries - Possession)", "Acarreos progresivos">>,
    <<"1/3 (Carries - Possession)", "Transporte balón último tercio">>,
    <<"CPA (Carries - Possession)", "Transporte balón area penalti">>,
    <<"Mis (Carries - Possession)", "Errores de control balón">>,
    <<"Dis (Carries - Possession)", "Desposeido del balón">>,
    <<"Rec (Receiving - Possession)", "Pases recibidos">>,
    <<"PrgR (Receiving - Possession)", "Pases progresivos recibidos">>,
    <<"Player (Unnamed: 1_level_0 - Miscellaneous Stats)", "Player">>,
    <<"Nation (Unnamed: 2_level_0 - Miscellaneous Stats)", "Nacionalidad">>,
    <<"Pos (Unnamed: 3_level_0 - Miscellaneous Stats)", "Posicion">>,
    <<"Squad (Unnamed: 4_level_0 - Miscellaneous Stats)", "Equipo">>,
    <<"Comp (Unnamed: 5_level_0 - Miscellaneous Stats)", "Competicion">>,
    <<"Age (Unnamed: 6_level_0 - Miscellaneous Stats)", "Edad">>,
    <<"Born (Unnamed: 7_level_0 - Miscellaneous Stats)", "Año">>,
    <<"90s (Unnamed: 8_level_0 - Miscellaneous Stats)", "Minutos jugados/90">>,
    <<"CrdY (Performance - Miscellaneous Stats)", "Tarjetas amarillas">>,
    <<"CrdR (Performance - Miscellaneous Stats)", "Tarjetas rojas">>,
    <<"2CrdY (Performance - Miscellaneous Stats)", "Segunda tarjeta amarilla">>,
    <<"Fls (Performance - Miscellaneous Stats)", "Faltas cometidas">>,
    <<"Fld (Performance - Miscellaneous Stats)", "Faltas recibidas">>,
    <<"Off (Performance - Miscellaneous Stats)", "Posicion adelantada (fuera de juego)">>,
    <<"Crs (Performance - Miscellaneous Stats)", "Pases cruzados">>,
    <<"Int (Performance - Miscellaneous Stats)", "Intercepciones">>,
    <<"TklW (Performance - Miscellaneous Stats)", "Derribos ganados">>,
    <<"PKwon (Performance - Miscellaneous Stats)", "Penaltis ejecutados">>,
    <<"PKcon (Performance - Miscellaneous Stats)", "Penaltis concedidos">>,
    <<"OG (Performance - Miscellaneous Stats)", "Goles en propia">>,
    <<"Recov (Performance - Miscellaneous Stats)", "Recuperaciones">>,
    <<"Won (Aerial Duels - Miscellaneous Stats)", "Duelos aéreos ganados">>,
    <<"Lost (Aerial Duels - Miscellaneous Stats)", "Duelos aéreos perdidos">>,
    <<"Won% (Aerial Duels - Miscellaneous Stats)", "% Duelos aéreos ganados">>,
    <<"Player (Unnamed: 1_level_0 - Playing Time)", "Player">>,
    <<"Nation (Unnamed: 2_level_0 - Playing Time)", "Nacionalidad">>,
    <<"Pos (Unnamed: 3_level_0 - Playing Time)", "Posicion">>,
    <<"Squad (Unnamed: 4_level_0 - Playing Time)", "Equipo">>,
    <<"Comp (Unnamed: 5_level_0 - Playing Time)", "Competicion">>,
    <<"Age (Unnamed: 6_level_0 - Playing Time)", "Edad">>,
    <<"Born (Unnamed: 7_level_0 - Playing Time)", "Año">>,
    <<"MP (Playing Time - Playing Time)", "Partidos jugados">>,
    <<"Min (Playing Time - Playing Time)", "Minutos jugados">>,
    <<"Mn/MP (Playing Time - Playing Time)", "Minutos jugados/Partidos jugados">>,
    <<"Min% (Playing Time - Playing Time)", "% Minutos jugados">>,
    <<"90s (Playing Time - Playing Time)", "Minutos jugados/90">>,
    <<"Starts (Starts - Playing Time)", "Alineaciones">>,
    <<"Mn/Start (Starts - Playing Time)", "Minutos jugados/Alineaciones">>,
    <<"Compl (Starts - Playing Time)", "Partidos completos">>,
    <<"Subs (Subs - Playing Time)", "Partidos suplente">>,
    <<"Mn/Sub (Subs - Playing Time)", "Minutos jugados/Partidos suplente">>,
    <<"unSub (Subs - Playing Time)", "Partidos suplente pero no sale">>,
    <<"PPM (Team Success - Playing Time)", "Puntos por partido aportado al equipo">>,
    <<"onG (Team Success - Playing Time)", "Goles marcados equipo en él">>,
    <<"onGA (Team Success - Playing Time)", "Goles permitidos equipo con él">>,
    <<"+/- (Team Success - Playing Time)", "Goles marcados-Goles permitidos equipo en él">>,
    <<"+/-90 (Team Success - Playing Time)", "Goles marcados-Goles permitidos equipo en él/90">>,
    <<"On-Off (Team Success - Playing Time)", "Goles neto/90 jugador dentro-fuera campo">>,
    <<"onxG (Team Success (xG) - Playing Time)", "xG marcados equipo en él">>,
    <<"onxGA (Team Success (xG) - Playing Time)", "xGA marcados equipo en él">>,
    <<"xG+/- (Team Success (xG) - Playing Time)", "xG marcados-xGA permitidos equipo en él">>,
    <<"xG+/-90 (Team Success (xG) - Playing Time)", "xG marcados-xGA permitidos equipo en él">>,
    <<"On-Off (Team Success (xG) - Playing Time)", "xG neto/90 jugador dentro-fuera campo">>,
    <<"Player (Unnamed: 1_level_0 - Goalkeeping)", "Player">>,
    <<"Nation (Unnamed: 2_level_0 - Goalkeeping)", "Nacionalidad">>,
    <<"Pos (Unnamed: 3_level_0 - Goalkeeping)", "Posicion">>,
    <<"Squad (Unnamed: 4_level_0 - Goalkeeping)", "Equipo">>,
    <<"Comp (Unnamed: 5_level_0 - Goalkeeping)", "Competicion">>,
    <<"Age (Unnamed: 6_level_0 - Goalkeeping)", "Edad">>,
    <<"Born (Unnamed: 7_level_0 - Goalkeeping)", "Año">>,
    <<"MP (Playing Time - Goalkeeping)", "Partidos jugados">>,
    <<"Starts (Playing Time - Goalkeeping)", "Alineaciones">>,
    <<"Min (Playing Time - Goalkeeping)", "Minutos jugados">>,
    <<"90s (Unnamed: 11_level_0 - Goalkeeping)", "Minutos jugados/90">>,
    <<"GA (Performance - Goalkeeping)", "Goles encajados">>,
    <<"GA90 (Performance - Goalkeeping)", "Goles ecajados/90">>,
    <<"SoTA (Performance - Goalkeeping)", "Tiros puerta recibidos">>,
    <<"Saves (Performance - Goalkeeping)", "Paradas">>,
    <<"Save% (Performance - Goalkeeping)", "% Paradas">>,
    <<"W (Performance - Goalkeeping)", "Partidos ganados">>,
    <<"D (Performance - Goalkeeping)", "Partidos empatados">>,
    <<"L (Performance - Goalkeeping)", "Partidos perdidos">>,
    <<"CS (Performance - Goalkeeping)", "Porteria a cero">>,
    <<"CS% (Performance - Goalkeeping)", "% Porteria a cero">>,
    <<"PKatt (Penalty Kicks - Goalkeeping)", "Pentaltis provocados">>,
    <<"PKA (Penalty Kicks - Goalkeeping)", "Penalti encajado">>,
    <<"PKsv (Penalty Kicks - Goalkeeping)", "Penaltis parados">>,
    <<"PKm (Penalty Kicks - Goalkeeping)", "Penaltis fallados">>,
    <<"Save% (Penalty Kicks - Goalkeeping)", "% Penaltis parados">>,
    <<"Player (Unnamed: 1_level_0 - Advanced Goalkeeping)", "Player">>,
    <<"Nation (Unnamed: 2_level_0 - Advanced Goalkeeping)", "Nacionalidad">>,
    <<"Pos (Unnamed: 3_level_0 - Advanced Goalkeeping)", "Posicion">>,
    <<"Squad (Unnamed: 4_level_0 - Advanced Goalkeeping)", "Equipo">>,
    <<"Comp (Unnamed: 5_level_0 - Advanced Goalkeeping)", "Competicion">>,
    <<"Age (Unnamed: 6_level_0 - Advanced Goalkeeping)", "Edad">>,
    <<"Born (Unnamed: 7_level_0 - Advanced Goalkeeping)", "Año">>,
    <<"90s (Unnamed: 8_level_0 - Advanced Goalkeeping)", "Minutos jugados/90">>,
    <<"GA (Goals - Advanced Goalkeeping)", "Goles encajados">>,
    <<"PKA (Goals - Advanced Goalkeeping)", "Penaltis encajados">>,
    <<"FK (Goals - Advanced Goalkeeping)", "Tiros libres encajados">>,
    <<"CK (Goals - Advanced Goalkeeping)", "Corners encajados">>,
    <<"OG (Goals - Advanced Goalkeeping)", "Goles propia meta">>,
    <<"PSxG (Expected - Advanced Goalkeeping)", "xGOT recibido">>,
    <<"PSxG/SoT (Expected - Advanced Goalkeeping)", "xGOT recibido/Tiro a puerta">>,
    <<"PSxG+/- (Expected - Advanced Goalkeeping)", "xGOT recibido-Goles encajados">>,
    <<"/90 (Expected - Advanced Goalkeeping)", "xGOT recibido-Goles encajados/90">>,
    <<"Cmp (Launched - Advanced Goalkeeping)", "Pases largos">>,
    <<"Att (Launched - Advanced Goalkeeping)", "Pases largos exito">>,
    <<"Cmp% (Launched - Advanced Goalkeeping)", "% Pases largos exito">>,
    <<"Att (GK) (Passes - Advanced Goalkeeping)", "Pases de portero ">>,
    <<"Thr (Passes - Advanced Goalkeeping)", "Lanzamientos">>,
    <<"Launch% (Passes - Advanced Goalkeeping)", "% pases portero completados">>,
    <<"AvgLen (Passes - Advanced Goalkeeping)", "Promedio distancia pases">>,
    <<"Att (Goal Kicks - Advanced Goalkeeping)", "Tiros de puerta">>,
    <<"Launch% (Goal Kicks - Advanced Goalkeeping)", "% Tiros puerta completados">>,
    <<"AvgLen (Goal Kicks - Advanced Goalkeeping)", "Promedio distancia tiros puerta">>,
    <<"Opp (Crosses - Advanced Goalkeeping)", "Centros oponentes intentados">>,
    <<"Stp (Crosses - Advanced Goalkeeping)", "Centros detenidos">>,
    <<"Stp% (Crosses - Advanced Goalkeeping)", "% Centros detenidos">>,
    <<"#OPA (Sweeper - Advanced Goalkeeping)", "Acciones defensivas fuera area penalti">>,
    <<"#OPA/90 (Sweeper - Advanced Goalkeeping)", "Acciones defensivas fuera area penalti/90">>,
    <<"AvgDist (Sweeper - Advanced Goalkeeping)", "Promedio de distancia Acc. def. fuera area penalti">>
  >>

\* the dict built from the literal (its keys are pairwise different)
mapeo_columns ==
    [k \in {mapeo_items[i][1] : i \in DOMAIN mapeo_items} |->
        mapeo_items[CHOOSE i \in DOMAIN mapeo_items : mapeo_items[i][1] = k][2]]

\* col in mapeo_columns
mapeo_has(col) == col \in DOMAIN mapeo_columns

\* mapeo_columns[col]
mapeo_get(col) == mapeo_columns[col]

(***************************************************************************)
(* Text helpers                                                            *)
(***************************************************************************)
Char(s, i) == SubSeq(s, i, i)

UpperAZ ==
    {"A", "B", "C", "D", "E", "F", "G", "H", "I", "J", "K", "L", "M",
     "N", "O", "P", "Q", "R", "S", "T", "U", "V", "W", "X", "Y", "Z"}

\* \s of the regular expressions, over the characters the cells use
Whitespace == {" ", "\t"}

Digits == "0123456789"

RECURSIVE IntToStr(_)
IntToStr(n) ==
    IF n < 0 THEN "-" \o IntToStr(0 - n)
    ELSE IF n < 10 THEN Char(Digits, n + 1)
    ELSE IntToStr(n \div 10) \o Char(Digits, (n % 10) + 1)

\* s contains sub
Contains(s, sub) ==
    \E i \in 1..(Len(s) - Len(sub) + 1) : SubSeq(s, i, i + Len(sub) - 1) = sub

\* Series.astype(str) on one cell
astype_str(c) ==
    IF IsStr(c) THEN c.str
    ELSE IF IsInt(c) THEN IntToStr(c.int)
    ELSE IF IsNumber(c)
         THEN (IF c.neg THEN "-" ELSE "") \o IntToStr(c.whole) \o "."
              \o (IF c.frac = "" THEN "0" ELSE c.frac)
    ELSE IF c = NaN THEN "nan"
    ELSE "None"

(***************************************************************************)
(* format_dataframe_columns                                                *)
(***************************************************************************)
\* mutant: an unlabeled ("Unnamed: ...") group cell is left out of the key
format_dataframe_columns_omit_unnamed(df, stat_category) ==
    IF df.multi
    THEN [df EXCEPT !.multi = FALSE,
                    !.columns = [i \in DOMAIN df.columns |->
                        IF Contains(df.columns[i][1], "Unnamed")
                        THEN df.columns[i][2] \o " (" \o stat_category \o ")"
                        ELSE df.columns[i][2] \o " (" \o df.columns[i][1]
                             \o " - " \o stat_category \o ")"]]
    ELSE [df EXCEPT !.columns = [i \in DOMAIN df.columns |->
                        df.columns[i] \o " (" \o stat_category \o ")"]]

\* mutant: the two-level key is built like the single-level one, from the
\* field label alone
format_dataframe_columns_field_only(df, stat_category) ==
    [df EXCEPT !.multi = FALSE,
               !.columns = [i \in DOMAIN df.columns |->
                   (IF df.multi THEN df.columns[i][2] ELSE df.columns[i])
                   \o " (" \o stat_category \o ")"]]

format_dataframe_columns(df, stat_category) ==
    IF df.multi
    THEN [df EXCEPT !.multi = FALSE,
                    !.columns = [i \in DOMAIN df.columns |->
                        df.columns[i][2] \o " (" \o df.columns[i][1] \o " - "
                        \o stat_category \o ")"]]
    ELSE [df EXCEPT !.columns = [i \in DOMAIN df.columns |->
                        df.columns[i] \o " (" \o stat_category \o ")"]]

(***************************************************************************)
(* formatear_datos                                                         *)
(***************************************************************************)
\* mutant: only the keys found in the lookup are kept
rename_columns_mapped_only(columns) ==
    LET kept == SelectSeq(columns, mapeo_has)
    IN  [i \in DOMAIN kept |-> mapeo_get(kept[i])]

\* df.columns = [mapeo_columns[col] if col in mapeo_columns else col ...]
rename_columns(columns) ==
    [i \in DOMAIN columns |->
        IF mapeo_has(columns[i]) THEN mapeo_get(columns[i]) ELSE columns[i]]

\* .str.extract(r'([A-Z]+)$'): the longest run of A-Z that ends the text
RECURSIVE TrailingUpper(_, _)
TrailingUpper(s, n) ==
    IF n = 0 \/ Char(s, n) \notin UpperAZ THEN 0
    ELSE 1 + TrailingUpper(s, n - 1)

\* mutant: the last three characters, whatever they are
extract_nacionalidad_last3(c) ==
    LET s == astype_str(c)
    IN  Str(SubSeq(s, Len(s) - 2, Len(s)))

\* .str.extract(r'([A-Z]+)$'): the run of A-Z letters that ends the text
extract_nacionalidad(c) ==
    LET s == astype_str(c)
        k == TrailingUpper(s, Len(s))
    IN  IF k = 0 THEN NaN ELSE Str(SubSeq(s, Len(s) - k + 1, Len(s)))

\* mutant: the text is kept whole
extract_edad_keep_all(c) == Str(astype_str(c))

\* .str.split('-').str[0]: the text before the first '-'
extract_edad(c) ==
    LET s == astype_str(c)
        hits == {i \in 1..Len(s) : Char(s, i) = "-"}
    IN  IF hits = {} THEN Str(s)
        ELSE Str(SubSeq(s, 1, (CHOOSE i \in hits : \A j \in hits : i <= j) - 1))

\* mutant: the text after the last whitespace character
extract_competicion_last_word(c) ==
    LET s == astype_str(c)
        hits == {i \in 1..(Len(s) - 1) : Char(s, i) \in Whitespace}
    IN  IF hits = {} THEN NaN
        ELSE Str(SubSeq(s, (CHOOSE i \in hits : \A j \in hits : i >= j) + 1,
                        Len(s)))

\* .str.extract(r'\s(.+)'): the text after the first whitespace character
\* that has a character after it
extract_competicion(c) ==
    LET s == astype_str(c)
        hits == {i \in 1..(Len(s) - 1) : Char(s, i) \in Whitespace}
    IN  IF hits = {} THEN NaN
        ELSE Str(SubSeq(s, (CHOOSE i \in hits : \A j \in hits : i <= j) + 1,
                        Len(s)))

Positions(columns, name) == {i \in DOMAIN columns : columns[i] = name}

\* the cleaning rule formatear_datos applies to the column called name
clean_cell(name, c) ==
    IF name = "Nacionalidad" THEN extract_nacionalidad(c)
    ELSE IF name = "Edad" THEN extract_edad(c)
    ELSE extract_competicion(c)

\* if name in df.columns: df[name] = df[name].astype(str).str...; with the
\* label repeated df[name] is a DataFrame, which has no .str accessor
clean_column(df, name) ==
    IF df.kind # "DataFrame" THEN df
    ELSE IF Positions(df.columns, name) = {} THEN df
    ELSE IF Cardinality(Positions(df.columns, name)) > 1
         THEN Raise("AttributeError")
    ELSE LET p == CHOOSE i \in DOMAIN df.columns : df.columns[i] = name
         IN  [df EXCEPT !.data = [r \in DOMAIN df.data |->
                                     [df.data[r] EXCEPT ![p] = clean_cell(name, @)]]]

formatear_datos(df) ==
    IF df.kind # "DataFrame" THEN Raise("AttributeError")
    ELSE LET renamed == [df EXCEPT !.columns = rename_columns(df.columns)]
         IN  clean_column(clean_column(clean_column(renamed, "Nacionalidad"),
                                       "Edad"), "Competicion")

(***************************************************************************)
(* Bounded inputs of the flattening and canonicalization steps             *)
(***************************************************************************)
MaxCols == 2

StatPool == {"Standard Stats", "Shooting"}

\* two-level labels <<group, field>> as pandas.read_html gives them
HeaderPool2 ==
    {<<"Unnamed: 2_level_0", "Nation">>, <<"Unnamed: 6_level_0", "Age">>,
     <<"Performance", "Gls">>, <<"Per 90 Minutes", "Gls">>,
     <<"Standard", "Gls">>, <<"Team Success (xG)", "xG+/-">>,
     <<"x (y", "Gls">>, <<"y", "Gls (x">>}

\* single-level labels as the comment-embedded table gives them
HeaderPool1 == {"Rk", "Player", "Nation", "Gls", "Matches"}

CellPool == {Str("es ESP"), Str("26-050"), IntCell(0)}

SeqsUpTo(S, n) == UNION {[1..k -> S] : k \in 1..n}

RowsFor(columns) == {<<>>} \cup {<<r>> : r \in [DOMAIN columns -> CellPool]}

RawFrames ==
    {DataFrame(TRUE, cols, RangeIndex(Len(rows)), rows) :
        <<cols, rows>> \in UNION {{<<c, r>> : r \in RowsFor(c)} :
                                  c \in SeqsUpTo(HeaderPool2, MaxCols)}}
    \cup
    {DataFrame(FALSE, cols, RangeIndex(Len(rows)), rows) :
        <<cols, rows>> \in UNION {{<<c, r>> : r \in RowsFor(c)} :
                                  c \in SeqsUpTo(HeaderPool1, MaxCols)}}

FlattenCalls ==
    {[fn |-> "format_dataframe_columns", df |-> d, stat_category |-> s] :
        d \in RawFrames, s \in StatPool}

FormatearCalls ==
    {[fn |-> "formatear_datos",
      df |-> format_dataframe_columns(d, s)] : d \in RawFrames, s \in StatPool}

(***************************************************************************)
(* Flattening and canonicalization as operations                           *)
(***************************************************************************)
FormatDataframeColumns ==
    /\ pc = "call"
    /\ call.fn = "format_dataframe_columns"
    /\ ret' = format_dataframe_columns(call.df, call.stat_category)
    /\ pc' = "return"
    /\ UNCHANGED <<call, fetches, dfs, globals>>

FormatearDatos ==
    /\ pc = "call"
    /\ call.fn = "formatear_datos"
    /\ ret' = formatear_datos(call.df)
    /\ pc' = "return"
    /\ UNCHANGED <<call, fetches, dfs, globals>>

InitFlatten ==
    /\ pc = "call"
    /\ call \in FlattenCalls \cup FormatearCalls
    /\ fetches = <<>>
    /\ dfs = <<>>
    /\ ret = None
    /\ globals = NoGlobals

NextFlatten == FormatDataframeColumns \/ FormatearDatos

SpecFlatten == InitFlatten /\ [][NextFlatten]_vars

(***************************************************************************)
(* Claims about flattening and canonicalization                            *)
(***************************************************************************)
Flattened == pc = "return" /\ call.fn = "format_dataframe_columns"

Canonicalized == pc = "return" /\ call.fn = "formatear_datos"

\* C7: format_dataframe_columns gives, for every column and in the original
\* order, the key "<label> (<tag>)" for a single-level header and
\* "<field> (<group> - <tag>)" for a two-level header; the group label is
\* always part of the key; the number of columns, the index and all cells
\* are unchanged.
C7_FlattenKeyFormat ==
    Flattened =>
        /\ ret.kind = "DataFrame"
        /\ Len(ret.columns) = Len(call.df.columns)
        /\ \A i \in DOMAIN call.df.columns :
              IF call.df.multi
              THEN /\ ret.columns[i] =
                        call.df.columns[i][2] \o " (" \o call.df.columns[i][1]
                        \o " - " \o call.stat_category \o ")"
                   /\ Contains(ret.columns[i], call.df.columns[i][1])
              ELSE ret.columns[i] =
                        call.df.columns[i] \o " (" \o call.stat_category \o ")"
        /\ ret.data = call.df.data
        /\ ret.index = call.df.index

C7_Witness ==
    /\ Flattened
    /\ call.df.multi
    /\ call.df.columns = <<<<"Unnamed: 2_level_0", "Nation">>, <<"Performance", "Gls">>>>
    /\ call.stat_category = "Standard Stats"
    /\ ret.columns = <<"Nation (Unnamed: 2_level_0 - Standard Stats)",
                       "Gls (Performance - Standard Stats)">>
    /\ Len(ret.data) = 1

\* C8 (as claimed): after flattening the column keys are pairwise distinct
\* for every input header, the second of two colliding columns being dropped.
C8_FlattenedKeysDistinct ==
    Flattened =>
        \A i, j \in DOMAIN ret.columns :
            i # j => ret.columns[i] # ret.columns[j]

\* the characters the key format uses as delimiters
NoDelimiter(s) ==
    ~Contains(s, "(") /\ ~Contains(s, ")") /\ ~Contains(s, " - ")

\* (group, field) read back from a generated two-level key under a known tag
Rederive(key, tag) ==
    LET open == CHOOSE i \in 1..Len(key) :
                    /\ Char(key, i) = "("
                    /\ \A j \in 1..(i - 1) : Char(key, j) # "("
        tail == Len(" - " \o tag \o ")")
    IN  <<SubSeq(key, open + 1, Len(key) - tail), SubSeq(key, 1, open - 2)>>

\* C9: for two-level labels and a tag that contain no delimiter of the key
\* format, the (group, field) pair is re-derived from the generated key, and
\* two different pairs under the same tag never generate the same key.
C9_FlattenLossless ==
    (Flattened /\ call.df.multi /\ NoDelimiter(call.stat_category)) =>
        \A i, j \in DOMAIN call.df.columns :
            (/\ NoDelimiter(call.df.columns[i][1])
             /\ NoDelimiter(call.df.columns[i][2])
             /\ NoDelimiter(call.df.columns[j][1])
             /\ NoDelimiter(call.df.columns[j][2]))
            => /\ Rederive(ret.columns[i], call.stat_category) = call.df.columns[i]
               /\ (call.df.columns[i] # call.df.columns[j]
                     => ret.columns[i] # ret.columns[j])

C9_Witness ==
    /\ Flattened
    /\ call.df.multi
    /\ call.df.columns = <<<<"Performance", "Gls">>, <<"Per 90 Minutes", "Gls">>>>
    /\ ret.columns[1] # ret.columns[2]
    /\ Rederive(ret.columns[2], call.stat_category) = <<"Per 90 Minutes", "Gls">>

\* C10: formatear_datos renames every key found in the lookup to its
\* canonical name and leaves every other key unchanged at the same position;
\* no column is removed or reordered, and canonicalization aborts only when
\* two mapped keys give the same cleaned field name, never for an unmapped key.
C10_RenameKeepsUnmapped ==
    Canonicalized =>
        /\ ret.kind = "DataFrame" =>
              /\ Len(ret.columns) = Len(call.df.columns)
              /\ Len(ret.data) = Len(call.df.data)
              /\ \A i \in DOMAIN call.df.columns :
                    IF mapeo_has(call.df.columns[i])
                    THEN ret.columns[i] = mapeo_get(call.df.columns[i])
                    ELSE ret.columns[i] = call.df.columns[i]
        /\ ret.kind # "DataFrame" =>
              \E i, j \in DOMAIN call.df.columns :
                  /\ i # j
                  /\ mapeo_has(call.df.columns[i])
                  /\ mapeo_has(call.df.columns[j])
                  /\ mapeo_get(call.df.columns[i]) = mapeo_get(call.df.columns[j])

C10_Witness ==
    /\ Canonicalized
    /\ call.df.columns = <<"Gls (Performance - Standard Stats)",
                           "Gls (x (y - Standard Stats)">>
    /\ ret.kind = "DataFrame"
    /\ ret.columns = <<"Goles", "Gls (x (y - Standard Stats)">>
    /\ Len(ret.data) = 1

(***************************************************************************)
(* LeagueManager: the catalog and generate_player_urls                     *)
(***************************************************************************)
base_url == "https://fbref.com/en/comps/"

Seasons == <<"2024-2025", "2023-2024", "2022-2023", "2021-2022", "2020-2021">>

\* possible_leagues['Fbref']: the id is written as the f-string renders it
possible_leagues ==
    <<[name |-> "Premier League", id |-> "9", slug |-> "Premier-League", seasons |-> Seasons],
      [name |-> "La Liga", id |-> "12", slug |-> "La-Liga", seasons |-> Seasons],
      [name |-> "Ligue 1", id |-> "13", slug |-> "Ligue-1", seasons |-> Seasons],
      [name |-> "Bundesliga", id |-> "20", slug |-> "Bundesliga", seasons |-> Seasons],
      [name |-> "Serie A", id |-> "11", slug |-> "Serie-A", seasons |-> Seasons],
      [name |-> "Big 5 European Leagues", id |-> "Big5", slug |-> "Big-5-European-Leagues",
       seasons |-> Seasons]>>

player_tables ==
    <<<<"Standard Stats", "stats/players">>,
      <<"Goalkeeping", "keepers/players">>,
      <<"Advanced Goalkeeping", "keepersadv/players">>,
      <<"Shooting", "shooting/players">>,
      <<"Passing", "passing/players">>,
      <<"Pass Types", "passing_types/players">>,
      <<"Goal and Shot Creation", "gca/players">>,
      <<"Defensive Actions", "defense/players">>,
      <<"Possession", "possession/players">>,
      <<"Playing Time", "playingtime/players">>,
      <<"Miscellaneous Stats", "misc/players">>>>

\* a Python str held where None may stand instead
Text(s) == [kind |-> "str", value |-> s]

\* str.replace(old, new) for a one-character old
RECURSIVE ReplaceChar(_, _, _)
ReplaceChar(s, old, new) ==
    IF s = "" THEN ""
    ELSE (IF Char(s, 1) = old THEN new ELSE Char(s, 1))
         \o ReplaceChar(SubSeq(s, 2, Len(s)), old, new)

\* the URL generate_player_urls stores for (league entry, season, table entry)
player_url(lg, season, tb) ==
    base_url \o lg.id \o "/" \o tb[2] \o "/" \o season \o "/"
    \o ReplaceChar(lg.name, " ", "-") \o "-Stats"

\* scrape_stats_player: the stored URL, or the KeyError / ValueError of the
\* lookups
scrape_stats_player(league, season, stat) ==
    IF ~\E i \in DOMAIN possible_leagues : possible_leagues[i].name = league
    THEN Raise("KeyError")
    ELSE LET lg == possible_leagues[CHOOSE i \in DOMAIN possible_leagues :
                                        possible_leagues[i].name = league]
         IN  IF season \notin Range(lg.seasons) THEN Raise("ValueError")
             ELSE IF ~\E k \in DOMAIN player_tables : player_tables[k][1] = stat
                  THEN Raise("KeyError")
             ELSE Text(player_url(lg, season,
                                  player_tables[CHOOSE k \in DOMAIN player_tables :
                                                    player_tables[k][1] = stat]))

(***************************************************************************)
(* extract_tables                                                          *)
(***************************************************************************)
UpperLetters == "ABCDEFGHIJKLMNOPQRSTUVWXYZ"

LowerLetters == "abcdefghijklmnopqrstuvwxyz"

LowerChar(c) ==
    IF c \in UpperAZ
    THEN Char(LowerLetters, CHOOSE k \in 1..Len(UpperLetters) : Char(UpperLetters, k) = c)
    ELSE c

RECURSIVE Lower(_)
Lower(s) ==
    IF s = "" THEN "" ELSE LowerChar(Char(s, 1)) \o Lower(SubSeq(s, 2, Len(s)))

\* Series.str.contains(pat, case=False) on one label
contains_nocase(label, pat) == Contains(Lower(label), Lower(pat))

\* DataFrame.fillna(0)
fillna0(df) ==
    [df EXCEPT !.data = [r \in DOMAIN df.data |->
        [c \in DOMAIN df.data[r] |->
            IF IsMissing(df.data[r][c]) THEN IntCell(0) ELSE df.data[r][c]]]]

\* the sequence of the elements of s at the positions in keep, in order
RECURSIVE SelectAt(_, _, _)
SelectAt(s, keep, i) ==
    IF i > Len(s) THEN <<>>
    ELSE (IF i \in keep THEN <<s[i]>> ELSE <<>>) \o SelectAt(s, keep, i + 1)

\* df[mask]: the rows at the positions in keep, with the labels they had
filter_rows(df, keep) ==
    [df EXCEPT !.data = SelectAt(df.data, keep, 1),
               !.index = SelectAt(df.index, keep, 1)]

reset_index(df) == [df EXCEPT !.index = RangeIndex(Len(df.data))]

\* df.loc[:, mask]: the columns at the positions in keep
select_columns(df, keep) ==
    [df EXCEPT !.columns = SelectAt(df.columns, keep, 1),
               !.data = [r \in DOMAIN df.data |-> SelectAt(df.data[r], keep, 1)]]

\* mutant: only the first repeated header row is removed
drop_header_rows_first_only(df) ==
    LET hdr == {r \in DOMAIN df.data : df.data[r][1] = Str("Rk")}
    IN  reset_index(filter_rows(df,
            {r \in DOMAIN df.data : hdr # {} => r # CHOOSE h \in hdr :
                                                      \A g \in hdr : h <= g}))

\* mutant: the rows keep the labels they had before the filter
drop_header_rows_keep_index(df) ==
    filter_rows(df, {r \in DOMAIN df.data : df.data[r][1] # Str("Rk")})

\* df = df[df.iloc[:, 0] != 'Rk'].reset_index(drop=True)
drop_header_rows(df) ==
    reset_index(filter_rows(df, {r \in DOMAIN df.data : df.data[r][1] # Str("Rk")}))

\* df = df.loc[:, ~df.columns.str.contains(pat, case=False)]
drop_columns_containing(df, pat) ==
    select_columns(df, {c \in DOMAIN df.columns : ~contains_nocase(df.columns[c], pat)})

\* the cleanup both strategies run after format_dataframe_columns; df.iloc[:, 0]
\* raises IndexError on a table without columns
cleanup(df) ==
    IF Len(df.columns) = 0 THEN Raise("IndexError")
    ELSE drop_columns_containing(
             drop_columns_containing(drop_header_rows(df), "matches"), "Rk")

\* pd.DataFrame(data, columns=headings).fillna(0).reset_index(drop=True):
\* short rows are padded with None, and the widest row must be as wide as
\* the headings
MaxOf(S) == CHOOSE m \in S : \A x \in S : x <= m

frame_from_rows(headings, data) ==
    IF data # <<>> /\ MaxOf({Len(data[r]) : r \in DOMAIN data}) # Len(headings)
    THEN Raise("ValueError")
    ELSE reset_index(fillna0(
           DataFrame(FALSE, headings, RangeIndex(Len(data)),
               [r \in DOMAIN data |->
                   [c \in DOMAIN headings |->
                       IF c <= Len(data[r]) THEN Str(data[r][c]) ELSE NoneCell]])))

\* mutant: the column is appended after the last one
insert_comp_last(df, league) ==
    IF Len(df.columns) < 4 THEN Raise("IndexError")
    ELSE IF "Comp" \in Range(df.columns) THEN Raise("ValueError")
    ELSE [df EXCEPT
            !.columns = df.columns \o <<"Comp">>,
            !.data = [r \in DOMAIN df.data |-> df.data[r] \o <<Str(league)>>]]

\* df.insert(4, 'Comp', [league] * len(df))
insert_comp(df, league) ==
    IF Len(df.columns) < 4 THEN Raise("IndexError")
    ELSE IF "Comp" \in Range(df.columns) THEN Raise("ValueError")
    ELSE [df EXCEPT
            !.columns = SubSeq(df.columns, 1, 4) \o <<"Comp">>
                        \o SubSeq(df.columns, 5, Len(df.columns)),
            !.data = [r \in DOMAIN df.data |->
                         SubSeq(df.data[r], 1, 4) \o <<Str(league)>>
                         \o SubSeq(df.data[r], 5, Len(df.data[r]))]]

\* what extract_tables returns: the pair (df, url), with the network
\* requests it made and the messages it printed, in order
Returned(df, url, events) == [df |-> df, url |-> url, events |-> events]

\* Strategy A on the tables pandas.read_html gave
strategy_a(tables, stat) ==
    cleanup(format_dataframe_columns(fillna0(tables[1]), stat))

\* Strategy B: the comment-embedded table of the fetched document
strategy_b(site, league, season, stat, save_excel, url, events) ==
    LET ev == events \o <<"requests.get">>
        failed(df) == Returned(df, url, ev \o <<"Error con BeautifulSoup">>)
        marked == {i \in DOMAIN site.comments : site.comments[i].marker}
    IN  IF site.get = "raise" THEN failed(None)
        ELSE IF marked = {} THEN failed(None)
        ELSE LET table == site.comments[CHOOSE i \in marked :
                                            \A j \in marked : i <= j].table
             IN  IF table = None THEN failed(None)
                 ELSE IF ~table.tbody THEN failed(None)
                 ELSE LET built == frame_from_rows(table.headings, table.rows)
                          withComp == IF league # "Big 5 European Leagues"
                                      THEN insert_comp(built, league) ELSE built
                      IN  IF built.kind = "Raise" THEN failed(None)
                          ELSE IF withComp.kind = "Raise" THEN failed(built)
                          ELSE LET flat == format_dataframe_columns(withComp, stat)
                                   clean == cleanup(flat)
                               IN  IF clean.kind = "Raise" THEN failed(flat)
                                   ELSE IF save_excel /\ site.to_excel = "raise"
                                        THEN failed(clean)
                                   ELSE Returned(clean, url, ev)

\* what the site serves at a URL; a URL outside the web cannot be fetched
site_at(web, url) ==
    IF url \in DOMAIN web THEN web[url]
    ELSE [read_html |-> "raise", tables |-> <<>>, get |-> "raise",
          comments |-> <<>>, to_excel |-> "ok"]

\* extract_tables once the URL is known: Strategy A, then Strategy B
extract_tables_from(site, url, league, season, stat, save_excel) ==
    IF site.read_html = "raise"
    THEN Returned(None, url, <<"read_html", "Error con pandas.read_html">>)
    ELSE IF Contains(url.value, "Big5") /\ site.tables # <<>>
         THEN LET raw == format_dataframe_columns(fillna0(site.tables[1]), stat)
                  clean == strategy_a(site.tables, stat)
              IN  IF clean.kind = "Raise"
                  THEN Returned(raw, url,
                                <<"read_html", "Error con pandas.read_html">>)
                  ELSE Returned(clean, url, <<"read_html">>)
    ELSE strategy_b(site, league, season, stat, save_excel, url, <<"read_html">>)

extract_tables(web, league, season, stat, save_excel) ==
    LET url == scrape_stats_player(league, season, stat)
    IN  IF url.kind = "Raise"
        THEN Returned(None, None, <<"Error al obtener la URL">>)
        ELSE extract_tables_from(site_at(web, url.value), url, league, season,
                                 stat, save_excel)

(***************************************************************************)
(* Bounded inputs of extract_tables: the call and what the site serves     *)
(***************************************************************************)
MaxRows == 2

SeqsFrom0(S, n) == UNION {[1..k -> S] : k \in 0..n}

\* the first table pandas.read_html parses from the page (two-level header)
DirectColumns ==
    <<<<"Unnamed: 0_level_0", "Rk">>, <<"Unnamed: 1_level_0", "Player">>,
      <<"Performance", "Gls">>, <<"Unnamed: 3_level_0", "Matches">>>>

DirectRowPool ==
    {<<Str("1"), Str("Pedri"), Str("3"), Str("Matches")>>,
     <<Str("Rk"), Str("Player"), Str("Gls"), Str("Matches")>>,
     <<Str("2"), Str("Gavi"), NaN, NaN>>}

\* the same table with its statistic under another group label
MarkingColumns == [DirectColumns EXCEPT ![3] = <<"Marking", "Gls">>]

DirectTables ==
    {DataFrame(TRUE, cols, RangeIndex(Len(rows)), rows) :
        cols \in {DirectColumns, MarkingColumns},
        rows \in SeqsFrom0(DirectRowPool, MaxRows)}

\* the table inside the comment: th scope=col texts, and per tr the texts of
\* its th and td cells
HeadingPool ==
    {<<"Rk", "Player", "Nation", "Pos", "Squad", "Gls", "Matches">>,
     <<"Rk", "Player", "Nation", "Pos", "Comp", "Gls">>,
     <<"Rk", "Player", "Gls">>,
     <<>>}

SampleText(heading) ==
    CASE heading = "Rk" -> "1"
      [] heading = "Player" -> "Pedri"
      [] heading = "Nation" -> "es ESP"
      [] heading = "Pos" -> "MF"
      [] heading = "Squad" -> "Barcelona"
      [] heading = "Comp" -> "es La Liga"
      [] heading = "Gls" -> "3"
      [] OTHER -> "Matches"

BodyRowPool(headings) ==
    LET full == [i \in DOMAIN headings |-> SampleText(headings[i])]
    IN  {full, headings, SubSeq(full, 1, Len(full) - 1), full \o <<"extra">>}

CommentTables ==
    UNION {{[headings |-> h, tbody |-> TRUE, rows |-> rows] :
               rows \in SeqsFrom0(BodyRowPool(h), MaxRows)}
           \cup {[headings |-> h, tbody |-> FALSE, rows |-> <<>>]} :
           h \in HeadingPool}

CommentLists ==
    {<<>>, <<[marker |-> FALSE, table |-> None]>>, <<[marker |-> TRUE, table |-> None]>>}
    \cup {<<[marker |-> TRUE, table |-> t]>> : t \in CommentTables}
    \cup {<<[marker |-> FALSE, table |-> t], [marker |-> TRUE, table |-> None]>> :
             t \in CommentTables}

Sites ==
    {[read_html |-> "ok", tables |-> <<t>>, get |-> "ok", comments |-> <<>>,
      to_excel |-> "ok"] : t \in DirectTables}
    \cup
    {[read_html |-> rh, tables |-> IF rh = "ok" THEN <<t>> ELSE <<>>, get |-> g,
      comments |-> c, to_excel |-> x] :
        rh \in {"ok", "raise"},
        t \in {DataFrame(TRUE, DirectColumns, RangeIndex(0), <<>>)},
        g \in {"ok", "raise"}, c \in CommentLists, x \in {"ok", "raise"}}

FetchArgs ==
    {[league |-> l, season |-> "2024-2025", stat |-> s, save_excel |-> x] :
        l \in {"La Liga", "Big 5 European Leagues"},
        s \in {"Standard Stats", "Playing Time"}, x \in BOOLEAN}
    \cup
    {[league |-> "Segunda Division", season |-> "2024-2025",
      stat |-> "Standard Stats", save_excel |-> FALSE],
     [league |-> "La Liga", season |-> "2019-2020",
      stat |-> "Standard Stats", save_excel |-> FALSE],
     [league |-> "La Liga", season |-> "2024-2025",
      stat |-> "Team Stats", save_excel |-> FALSE]}

\* the web that serves site w at the URL of the call (and nothing else)
WebFor(a, w) ==
    LET url == scrape_stats_player(a.league, a.season, a.stat)
    IN  IF url.kind = "Raise" THEN [u \in {} |-> w] ELSE [u \in {url.value} |-> w]

ExtractCalls ==
    {[fn |-> "extract_tables", web |-> WebFor(a, w), league |-> a.league,
      season |-> a.season, stat |-> a.stat, save_excel |-> a.save_excel] :
        w \in Sites, a \in FetchArgs}

ExtractTables ==
    /\ pc = "call"
    /\ call.fn = "extract_tables"
    /\ ret' = extract_tables(call.web, call.league, call.season, call.stat,
                             call.save_excel)
    /\ pc' = "return"
    /\ UNCHANGED <<call, fetches, dfs, globals>>

InitFetch ==
    /\ pc = "call"
    /\ call \in ExtractCalls
    /\ fetches = <<>>
    /\ dfs = <<>>
    /\ ret = None
    /\ globals = NoGlobals

NextFetch == ExtractTables

SpecFetch == InitFetch /\ [][NextFetch]_vars

(***************************************************************************)
(* Claims about extract_tables                                             *)
(***************************************************************************)
Fetched == pc = "return" /\ call.fn = "extract_tables"

\* the locator was resolved to a URL
Resolved == ret.url # None

Logged(event) == event \in Range(ret.events)

\* Strategy A gave a table the call returns
DirectYieldsTable ==
    /\ site_at(call.web, ret.url.value).read_html = "ok"
    /\ Contains(ret.url.value, "Big5")
    /\ site_at(call.web, ret.url.value).tables # <<>>

ErrorLogged ==
    Logged("Error con pandas.read_html") \/ Logged("Error con BeautifulSoup")

\* C4 (as claimed): whenever Strategy A yields no usable table, also when
\* pandas.read_html raises, the comment-embedded fallback is attempted (the
\* document is requested) before the call reports its result.
C4_FallbackAlwaysTried ==
    (Fetched /\ Resolved /\ ~DirectYieldsTable) => Logged("requests.get")

\* C5 (as claimed): whenever extract_tables hits an error after the locator
\* was resolved, the table it returns is None.
C5_ErrorReturnsNone ==
    (Fetched /\ Resolved /\ ErrorLogged) => ret.df = None

\* C6 (as claimed): extract_tables returns a table without an error only when
\* that table has at least one data row (the rows whose first cell is 'Rk'
\* are removed before the return, so every row left is a data row).
C6_SuccessHasDataRow ==
    (Fetched /\ ~ErrorLogged /\ ret.df # None) => ret.df.data # <<>>

\* extract_tables returned a table and printed no error
Cleaned == Fetched /\ Resolved /\ ~ErrorLogged /\ ret.df # None

\* the comment-embedded table Strategy B parsed
CommentTable ==
    LET site == site_at(call.web, ret.url.value)
        marked == {i \in DOMAIN site.comments : site.comments[i].marker}
    IN  site.comments[CHOOSE i \in marked : \A j \in marked : i <= j].table

\* the table of the source as the strategy built it, before its columns
\* are flattened: tables[0].fillna(0), or the comment table with Comp
SourceTable ==
    IF DirectYieldsTable
    THEN fillna0(site_at(call.web, ret.url.value).tables[1])
    ELSE LET built == frame_from_rows(CommentTable.headings, CommentTable.rows)
         IN  IF call.league # "Big 5 European Leagues"
             THEN insert_comp(built, call.league) ELSE built

\* the label of column c of the source table
SourceLabel(c) ==
    IF SourceTable.multi THEN SourceTable.columns[c][2] ELSE SourceTable.columns[c]

Uncleaned == format_dataframe_columns(SourceTable, call.stat)

\* C26 (as claimed): the cleanup removes a column only if it is the
\* 'Matches' link column or the rank column 'Rk'; every other column of the
\* source table, whatever its label, group label or category tag, is still
\* there, in the original order.
C26_OnlyRankAndMatchesDropped ==
    Cleaned =>
        ret.df.columns =
            SelectAt(Uncleaned.columns,
                     {c \in DOMAIN Uncleaned.columns :
                         SourceLabel(c) \notin {"Rk", "Matches"}}, 1)

\* the rows of the source table that are no repeated header row
BodyRows == {r \in DOMAIN Uncleaned.data : Uncleaned.data[r][1] # Str("Rk")}

\* the i-th of them in source order
NthBodyRow(i) ==
    CHOOSE r \in BodyRows : Cardinality({q \in BodyRows : q <= r}) = i

\* the columns the cleanup leaves
KeptColumns ==
    {c \in DOMAIN Uncleaned.columns :
        /\ ~contains_nocase(Uncleaned.columns[c], "matches")
        /\ ~contains_nocase(Uncleaned.columns[c], "Rk")}

\* C27: the cleanup of both strategies removes exactly the rows whose
\* first-column cell is 'Rk'; every other row is kept, in source order, and
\* the rows of the returned table are labelled 0..n-1.
C27_HeaderRowsRemoved ==
    Cleaned =>
        /\ Len(ret.df.data) = Cardinality(BodyRows)
        /\ ret.df.index = RangeIndex(Len(ret.df.data))
        /\ \A i \in DOMAIN ret.df.data :
              ret.df.data[i] = SelectAt(Uncleaned.data[NthBodyRow(i)], KeptColumns, 1)

\* a directly parsed table with a repeated header row before a player's
\* row: the player's row is returned as row 0
C27_Witness ==
    /\ Cleaned
    /\ DirectYieldsTable
    /\ Len(Uncleaned.data) = 2
    /\ BodyRows = {2}
    /\ ret.df.index = <<0>>
    /\ ret.df.data[1][1] = Str("Pedri")

\* the locator is not a combined source and pandas.read_html parsed it
SingleLeagueParsed ==
    /\ Fetched
    /\ Resolved
    /\ ~Contains(ret.url.value, "Big5")
    /\ site_at(call.web, ret.url.value).read_html = "ok"
    /\ site_at(call.web, ret.url.value).tables # <<>>

\* C28: the directly parsed table is returned only for a locator whose URL
\* contains 'Big5' and that has a table; for any other locator the parsed
\* tables are discarded, Strategy B is run, and the table it returns was
\* given a competition column at column position 4 that holds the requested
\* league name in every row.
C28_DirectOnlyForCombined ==
    /\ (Fetched /\ Resolved /\ ret.df # None /\ ~Logged("requests.get"))
           => DirectYieldsTable
    /\ SingleLeagueParsed =>
          /\ Logged("requests.get")
          /\ Cleaned =>
                /\ Len(Uncleaned.columns) >= 5
                /\ Uncleaned.columns[5] = "Comp (" \o call.stat \o ")"
                /\ \A r \in DOMAIN Uncleaned.data :
                      Uncleaned.data[r][5] = Str(call.league)
                /\ 5 \in KeptColumns
                /\ ret.df.columns =
                      SelectAt(Uncleaned.columns, KeptColumns, 1)

\* a La Liga page that pandas parsed, answered from its comment table
C28_Witness ==
    /\ SingleLeagueParsed
    /\ Cleaned
    /\ call.league = "La Liga"
    /\ CommentTable.headings = <<"Rk", "Player", "Nation", "Pos", "Squad", "Gls", "Matches">>
    /\ Len(ret.df.data) = 1
    /\ ret.df.columns[4] = "Comp (" \o call.stat \o ")"
    /\ ret.df.data[1][4] = Str("La Liga")

(***************************************************************************)
(* pd.to_numeric(errors='coerce')                                          *)
(***************************************************************************)
\* A parsed number: sign, whole part and the decimals without trailing
\* zeros, so that 10, 10.0 and "10.00" are the same value.
Number(neg, whole, frac) == [neg |-> neg, whole |-> whole, frac |-> frac]

DigitSet == {Char(Digits, d) : d \in 1..Len(Digits)}

DigitValue(c) == (CHOOSE d \in 1..Len(Digits) : Char(Digits, d) = c) - 1

AllDigits(s) == \A i \in 1..Len(s) : Char(s, i) \in DigitSet

RECURSIVE StrToNat(_)
StrToNat(s) ==
    IF s = "" THEN 0
    ELSE 10 * StrToNat(SubSeq(s, 1, Len(s) - 1)) + DigitValue(Char(s, Len(s)))

RECURSIVE StripZeros(_)
StripZeros(s) ==
    IF s # "" /\ Char(s, Len(s)) = "0" THEN StripZeros(SubSeq(s, 1, Len(s) - 1))
    ELSE s

\* the number a text cell parses to: [+-] digits [. digits]; anything else
\* (a comma, a percent sign, letters, the empty text) is not a number
parse_number(s) ==
    LET signed == Len(s) >= 1 /\ Char(s, 1) \in {"-", "+"}
        body == IF signed THEN SubSeq(s, 2, Len(s)) ELSE s
        dots == {i \in 1..Len(body) : Char(body, i) = "."}
        dot == IF dots = {} THEN Len(body) + 1 ELSE CHOOSE i \in dots : TRUE
        whole == SubSeq(body, 1, dot - 1)
        frac == SubSeq(body, dot + 1, Len(body))
    IN  IF Cardinality(dots) > 1 \/ ~AllDigits(whole) \/ ~AllDigits(frac)
           \/ Len(whole) + Len(frac) = 0
        THEN NaN
        ELSE LET w == StrToNat(whole)
                 f == StripZeros(frac)
             IN  Number(signed /\ Char(s, 1) = "-" /\ (w # 0 \/ f # ""), w, f)

to_numeric(c) ==
    IF IsStr(c) THEN parse_number(c.str)
    ELSE IF IsInt(c) THEN Number(c.int < 0, IF c.int < 0 THEN 0 - c.int ELSE c.int, "")
    ELSE IF IsNumber(c) THEN c
    ELSE NaN

\* mutant: value > 0
more_than_zero(c) == IsNumber(c) /\ ~c.neg /\ (c.whole >= 1 \/ c.frac # "")

\* value >= 1 on one cell of a numeric column (False for NaN)
at_least_one(c) == IsNumber(c) /\ ~c.neg /\ c.whole >= 1

\* the extract_tables call inside obtener_foramtear_playingtime_jugadores
playingtime_request ==
    [league |-> "Big 5 European Leagues", season |-> "2024-2025",
     stat |-> "Playing Time"]

(***************************************************************************)
(* The merge of creacion_df_general_fbref / creacion_df_porteros_fbref     *)
(***************************************************************************)
\* the number of leading columns the merge leaves as they are: columns[7:]
IdentityColumns == 7

\* the row labels of pd.concat(axis=1): the labels of the first frame, then
\* the labels of each later frame that were not seen before (outer join)
RECURSIVE union_index(_, _, _)
union_index(frames, i, acc) ==
    IF i > Len(frames) THEN acc
    ELSE union_index(frames, i + 1,
             acc \o SelectSeq(frames[i].index, LAMBDA l : l \notin Range(acc)))

\* the row of frame f labelled l, or NaN in every column of f
row_at(f, l) ==
    IF l \in Range(f.index)
    THEN f.data[CHOOSE r \in DOMAIN f.index : f.index[r] = l]
    ELSE [c \in DOMAIN f.columns |-> NaN]

RECURSIVE FlattenSeq(_)
FlattenSeq(ss) == IF ss = <<>> THEN <<>> ELSE Head(ss) \o FlattenSeq(Tail(ss))

\* pd.concat(frames, axis=1): columns side by side, rows aligned on the row
\* label, a frame without a label padded with NaN
concat_axis1(frames) ==
    LET idx == union_index(frames, 1, <<>>)
    IN  DataFrame(FALSE,
                  FlattenSeq([k \in DOMAIN frames |-> frames[k].columns]),
                  idx,
                  [r \in DOMAIN idx |->
                      FlattenSeq([k \in DOMAIN frames |-> row_at(frames[k], idx[r])])])

\* mutant: duplicated(keep='last')
drop_duplicate_columns_keep_last(df) ==
    select_columns(df, {c \in DOMAIN df.columns :
                           \A b \in (c + 1)..Len(df.columns) :
                               df.columns[b] # df.columns[c]})

\* df.loc[:, ~df.columns.duplicated(keep='first')]
drop_duplicate_columns(df) ==
    select_columns(df, {c \in DOMAIN df.columns :
                           \A b \in 1..(c - 1) : df.columns[b] # df.columns[c]})

\* df.loc[:, df.columns[n:]] = df.loc[:, df.columns[n:]].apply(pd.to_numeric,
\* errors='coerce')
numeric_from(df, n) ==
    [df EXCEPT !.data = [r \in DOMAIN df.data |->
        [c \in DOMAIN df.data[r] |->
            IF c > n THEN to_numeric(df.data[r][c]) ELSE df.data[r][c]]]]

merge_frames(frames) ==
    numeric_from(drop_duplicate_columns(concat_axis1(frames)), IdentityColumns)

(***************************************************************************)
(* obtener_foramtear_playingtime_jugadores and the two dataset builders    *)
(***************************************************************************)
\* extract_tables followed by formatear_datos, as each category is fetched
fetch_category(web, league, stat) ==
    formatear_datos(extract_tables(web, league, "2024-2025", stat, FALSE).df)

obtener_foramtear_playingtime_jugadores(web, league, season, stat) ==
    LET df == extract_tables(web, "Big 5 European Leagues", "2024-2025",
                             "Playing Time", FALSE).df
        mp == "MP (Playing Time - Playing Time)"
    IN  IF df.kind # "DataFrame" THEN Raise("TypeError")
        ELSE IF Positions(df.columns, mp) = {} THEN Raise("KeyError")
        ELSE IF Cardinality(Positions(df.columns, mp)) > 1 THEN Raise("TypeError")
        ELSE LET p == CHOOSE c \in DOMAIN df.columns : df.columns[c] = mp
                 num == [df EXCEPT !.data = [r \in DOMAIN df.data |->
                            [df.data[r] EXCEPT ![p] = to_numeric(@)]]]
             IN  reset_index(filter_rows(num,
                     {r \in DOMAIN num.data : at_least_one(num.data[r][p])}))

GeneralStats ==
    <<"Standard Stats", "Shooting", "Passing", "Pass Types",
      "Goal and Shot Creation", "Defensive Actions", "Possession",
      "Miscellaneous Stats">>

GoalkeeperStats == <<"Goalkeeping", "Advanced Goalkeeping">>

\* the frames creacion_df_general_fbref hands to pd.concat, in order; an
\* entry is the exception raised while that frame was being made
general_frames(web, league) ==
    [k \in DOMAIN GeneralStats |-> fetch_category(web, league, GeneralStats[k])]
    \o <<LET pt == obtener_foramtear_playingtime_jugadores(
                       web, "Big 5 European Leagues", "2024-2025", "Playing Time")
         IN  IF pt.kind = "Raise" THEN pt ELSE formatear_datos(pt)>>

goalkeeper_frames(web, league) ==
    [k \in DOMAIN GoalkeeperStats |-> fetch_category(web, league, GoalkeeperStats[k])]

\* the arguments of one extract_tables call of a builder: the league is the
\* builder's, the season is the literal of the call site
category_request(league, stat) ==
    [league |-> league, season |-> "2024-2025", stat |-> stat]

\* the extract_tables calls of creacion_df_general_fbref, the one made inside
\* obtener_foramtear_playingtime_jugadores last
general_requests(league) ==
    [k \in DOMAIN GeneralStats |-> category_request(league, GeneralStats[k])]
    \o <<playingtime_request>>

\* the extract_tables calls of creacion_df_porteros_fbref
goalkeeper_requests(league) ==
    [k \in DOMAIN GoalkeeperStats |-> category_request(league, GoalkeeperStats[k])]

\* the calls a build makes: the exception raised while a frame is being made
\* ends the build, and the later calls are never made
issued(requests, frames) ==
    LET bad == {k \in DOMAIN frames : frames[k].kind = "Raise"}
    IN  IF bad = {} THEN requests
        ELSE SubSeq(requests, 1, CHOOSE k \in bad : \A j \in bad : k <= j)

\* each call with what extract_tables answered
issue(web, requests) ==
    [k \in DOMAIN requests |->
        [request |-> requests[k],
         out |-> extract_tables(web, requests[k].league, requests[k].season,
                                requests[k].stat, FALSE)]]

\* the first exception in statement order ends the call; otherwise the merge
build(frames) ==
    LET bad == {k \in DOMAIN frames : frames[k].kind = "Raise"}
    IN  IF bad # {} THEN frames[CHOOSE k \in bad : \A j \in bad : k <= j]
        ELSE merge_frames(frames)

(***************************************************************************)
(* Bounded inputs of the builders: the Big 5 pages of season 2024-2025     *)
(***************************************************************************)
MaxPlayers == 2

IdentityHeader ==
    <<<<"Unnamed: 0_level_0", "Rk">>, <<"Unnamed: 1_level_0", "Player">>,
      <<"Unnamed: 2_level_0", "Nation">>, <<"Unnamed: 3_level_0", "Pos">>,
      <<"Unnamed: 4_level_0", "Squad">>, <<"Unnamed: 5_level_0", "Comp">>,
      <<"Unnamed: 6_level_0", "Age">>, <<"Unnamed: 7_level_0", "Born">>>>

StatHeader(stat) ==
    CASE stat = "Standard Stats" -> <<<<"Playing Time", "MP">>, <<"Performance", "Gls">>>>
      [] stat = "Shooting" -> <<<<"Standard", "Gls">>, <<"Standard", "SoT%">>>>
      [] stat = "Passing" -> <<<<"Total", "Cmp">>>>
      [] stat = "Pass Types" -> <<<<"Pass Types", "Live">>>>
      [] stat = "Goal and Shot Creation" -> <<<<"SCA", "SCA">>>>
      [] stat = "Defensive Actions" -> <<<<"Tackles", "Tkl">>>>
      [] stat = "Possession" -> <<<<"Touches", "Touches">>>>
      [] stat = "Miscellaneous Stats" -> <<<<"Performance", "Fls">>>>
      [] stat = "Playing Time" ->
            <<<<"Playing Time", "MP">>, <<"Team Success (xG)", "xG+/-">>,
              <<"Team Success (xG)", "xG+/-90">>>>
      [] stat = "Goalkeeping" -> <<<<"Playing Time", "MP">>, <<"Performance", "Save%">>>>
      [] OTHER -> <<<<"Expected", "PSxG">>>>

PageHeader(stat) ==
    IdentityHeader \o StatHeader(stat) \o <<<<"Unnamed: 36_level_0", "Matches">>>>

Roster ==
    {[rk |-> "1", name |-> "Pedri", nation |-> "es ESP", pos |-> "MF",
      squad |-> "Barcelona", comp |-> "es La Liga", age |-> "21-100",
      born |-> "2002", mp |-> "5", n |-> "3"],
     [rk |-> "2", name |-> "Harry Kane", nation |-> "eng ENG", pos |-> "FW",
      squad |-> "Bayern Munich", comp |-> "de Bundesliga", age |-> "30-200",
      born |-> "1993", mp |-> "0", n |-> "1"]}

\* a repeated header row of the page body
HeaderRow == [rk |-> "Rk"]

StatIndex(stat) == CHOOSE k \in DOMAIN player_tables : player_tables[k][1] = stat

\* the text of one statistic cell: it differs per player, per category and
\* per field kind
StatText(p, stat, field) ==
    IF field = "MP" THEN p.mp
    ELSE IF field = "xG+/-90" THEN "0." \o p.n
    ELSE IF field = "xG+/-" THEN p.n \o ".5"
    ELSE IF field = "SoT%" THEN p.n \o "2,5"
    ELSE IF field = "Save%" THEN "7" \o p.n \o "%"
    ELSE p.n \o IntToStr(StatIndex(stat))

PageRow(p, stat) ==
    IF p = HeaderRow
    THEN [c \in DOMAIN PageHeader(stat) |-> Str(PageHeader(stat)[c][2])]
    ELSE <<Str(p.rk), Str(p.name), Str(p.nation), Str(p.pos), Str(p.squad),
           Str(p.comp), Str(p.age), Str(p.born)>>
         \o [c \in DOMAIN StatHeader(stat) |->
                Str(StatText(p, stat, StatHeader(stat)[c][2]))]
         \o <<Str("Matches")>>

\* the page of one category listing the given rows
Page(stat, rows) ==
    [read_html |-> "ok",
     tables |-> <<DataFrame(TRUE, PageHeader(stat), RangeIndex(Len(rows)),
                            [r \in DOMAIN rows |-> PageRow(rows[r], stat)])>>,
     get |-> "ok", comments |-> <<>>, to_excel |-> "ok"]

AllStats == {player_tables[k][1] : k \in DOMAIN player_tables}

\* the URL of each category page of the Big 5 leagues, season 2024-2025
Big5Url ==
    [s \in AllStats |->
        scrape_stats_player("Big 5 European Leagues", "2024-2025", s).value]

\* every category lists rowsA, except the category odd, which lists rowsB
WebOf(rowsA, odd, rowsB) ==
    [u \in {Big5Url[s] : s \in AllStats} |->
        LET s == CHOOSE t \in AllStats : Big5Url[t] = u
        IN  Page(s, IF s = odd THEN rowsB ELSE rowsA)]

RowLists == SeqsFrom0(Roster \cup {HeaderRow}, MaxPlayers)

\* how the odd category lists the rows: the same, without the last one, in
\* reverse order, or after one more repeated header row
Variants(rows) ==
    {rows, SubSeq(rows, 1, Len(rows) - 1),
     [i \in DOMAIN rows |-> rows[Len(rows) + 1 - i]], <<HeaderRow>> \o rows}

Webs ==
    {WebOf(a, odd, b) :
        <<a, b>> \in UNION {{<<x, y>> : y \in Variants(x)} : x \in RowLists},
        odd \in {"Shooting", "Playing Time", "Advanced Goalkeeping"}}

\* the page of one category of a single league: its table sits inside a
\* comment, without the Comp column
LeagueHeadings ==
    <<"Rk", "Player", "Nation", "Pos", "Squad", "Age", "Born", "MP", "Matches">>

LeagueRow(p) ==
    <<p.rk, p.name, p.nation, p.pos, p.squad, p.age, p.born, p.mp, "Matches">>

\* a player of the roster who has played
Regular == CHOOSE q \in Roster : q.mp # "0"

LeagueKinds == {"listed", "short", "unparsed", "unreachable"}

LeaguePage(kind) ==
    [read_html |-> IF kind = "unparsed" THEN "raise" ELSE "ok",
     tables |-> <<>>,
     get |-> IF kind = "unreachable" THEN "raise" ELSE "ok",
     comments |-> <<[marker |-> TRUE,
                     table |-> [headings |-> IF kind = "short"
                                             THEN SubSeq(LeagueHeadings, 1, 3)
                                             ELSE LeagueHeadings,
                                tbody |-> TRUE,
                                rows |-> <<IF kind = "short"
                                           THEN SubSeq(LeagueRow(Regular), 1, 3)
                                           ELSE LeagueRow(Regular)>>]]>>,
     to_excel |-> "ok"]

LeagueUrl(league, s) == scrape_stats_player(league, "2024-2025", s).value

\* the Big 5 pages together with the pages of one league, whose first
\* category page (of either builder) is of the given kind
LeagueWeb(league, kind) ==
    LET big5 == WebOf(<<Regular>>, "Shooting", <<Regular>>)
        own == {LeagueUrl(league, s) : s \in AllStats}
    IN  [u \in DOMAIN big5 \cup own |->
            IF u \in own
            THEN LeaguePage(IF u \in {LeagueUrl(league, "Standard Stats"),
                                      LeagueUrl(league, "Goalkeeping")}
                            THEN kind ELSE "listed")
            ELSE big5[u]]

\* a Big 5 page without identity columns: every cell is numeric text
NumericHeader(stat) ==
    IF stat = "Standard Stats"
    THEN <<<<"Performance", "Gls">>, <<"Performance", "Ast">>>>
    ELSE StatHeader(stat)

NumericPage(stat, mp) ==
    [read_html |-> "ok",
     tables |-> <<DataFrame(TRUE, NumericHeader(stat), RangeIndex(1),
                    <<[c \in DOMAIN NumericHeader(stat) |->
                         Str(IF stat = "Standard Stats" THEN <<"10", "5">>[c]
                             ELSE IF NumericHeader(stat)[c][2] = "MP" THEN mp
                             ELSE "7")]>>)>>,
     get |-> "ok", comments |-> <<>>, to_excel |-> "ok"]

\* mp is the matches played every page with an MP column lists
NumericWeb(mp) ==
    [u \in {Big5Url[s] : s \in AllStats} |->
        NumericPage(CHOOSE t \in AllStats : Big5Url[t] = u, mp)]

Builders == {"creacion_df_general_fbref", "creacion_df_porteros_fbref"}

BuildCalls ==
    {[fn |-> f, web |-> w, league |-> "Big 5 European Leagues",
      season |-> "2024-2025"] : f \in Builders, w \in Webs}
    \cup
    {[fn |-> f, web |-> LeagueWeb("La Liga", k), league |-> l, season |-> s] :
        f \in Builders, k \in LeagueKinds,
        l \in {"La Liga", "Big 5 European Leagues"},
        s \in {Seasons[1], Seasons[2]}}
    \cup
    {[fn |-> f, web |-> NumericWeb(mp), league |-> "Big 5 European Leagues",
      season |-> "2024-2025"] : f \in Builders, mp \in {"0", "5"}}

CreacionDfGeneral ==
    /\ pc = "call"
    /\ call.fn = "creacion_df_general_fbref"
    /\ dfs' = general_frames(call.web, call.league)
    /\ fetches' = issue(call.web, issued(general_requests(call.league), dfs'))
    /\ ret' = build(dfs')
    /\ pc' = "return"
    /\ UNCHANGED <<call, globals>>

CreacionDfPorteros ==
    /\ pc = "call"
    /\ call.fn = "creacion_df_porteros_fbref"
    /\ dfs' = goalkeeper_frames(call.web, call.league)
    /\ fetches' = issue(call.web, issued(goalkeeper_requests(call.league), dfs'))
    /\ ret' = build(dfs')
    /\ pc' = "return"
    /\ UNCHANGED <<call, globals>>

InitBuild ==
    /\ pc = "call"
    /\ call \in BuildCalls
    /\ fetches = <<>>
    /\ dfs = <<>>
    /\ ret = None
    /\ globals = NoGlobals

NextBuild == CreacionDfGeneral \/ CreacionDfPorteros

SpecBuild == InitBuild /\ [][NextBuild]_vars

(***************************************************************************)
(* Claims about the merge                                                  *)
(***************************************************************************)
Built ==
    /\ pc = "return"
    /\ call.fn \in {"creacion_df_general_fbref", "creacion_df_porteros_fbref"}

\* the CategorySets the call merges, in input order
CategorySets == dfs

AllFetched == \A k \in DOMAIN CategorySets : CategorySets[k].kind = "DataFrame"

RowCounts == {Len(CategorySets[k].data) : k \in DOMAIN CategorySets}

\* C1 (as claimed): merging CategorySets of unequal row counts always ends in
\* an error and yields no unified table.
C1_UnequalRowCountsRejected ==
    (Built /\ AllFetched /\ Cardinality(RowCounts) > 1) => ret.kind = "Raise"

Before(a, b) == a[1] < b[1] \/ (a[1] = b[1] /\ a[2] < b[2])

Earliest(S) == CHOOSE a \in S : \A b \in S : a = b \/ Before(a, b)

\* the occurrences <<set, column>> of a column name
ColumnsOf(name) ==
    UNION {{<<k, c>> : c \in Positions(CategorySets[k].columns, name)} :
              k \in DOMAIN CategorySets}

AllNames == UNION {Range(CategorySets[k].columns) : k \in DOMAIN CategorySets}

\* the cell of row r in occurrence a; a set with fewer rows has none
SourceCell(a, r) ==
    IF r <= Len(CategorySets[a[1]].data)
    THEN CategorySets[a[1]].data[r][a[2]]
    ELSE NaN

\* the typing of the merge: columns after the identity columns are numbers
Typed(j, cell) == IF j > IdentityColumns THEN to_numeric(cell) ELSE cell

\* C2: for every column name of the merged CategorySets the unified table
\* has exactly one column of that name, holding the values of the earliest
\* occurrence in input order; later occurrences are dropped and the surviving
\* columns stand in the order of their first occurrences.
C2_FirstOccurrenceKept ==
    (Built /\ AllFetched) =>
        /\ ret.kind = "DataFrame"
        /\ Range(ret.columns) = AllNames
        /\ Cardinality(Range(ret.columns)) = Len(ret.columns)
        /\ \A j \in DOMAIN ret.columns :
              /\ j > 1 => Before(Earliest(ColumnsOf(ret.columns[j - 1])),
                                 Earliest(ColumnsOf(ret.columns[j])))
              /\ \A r \in DOMAIN ret.data :
                    ret.data[r][j] =
                        Typed(j, SourceCell(Earliest(ColumnsOf(ret.columns[j])), r))

\* a name occurs twice inside one set and also in two sets, and one column
\* of the earliest values is left
C2_Witness ==
    /\ Built
    /\ AllFetched
    /\ call.fn = "creacion_df_general_fbref"
    /\ \E k \in DOMAIN CategorySets : \E c, d \in DOMAIN CategorySets[k].columns :
          c # d /\ CategorySets[k].columns[c] = CategorySets[k].columns[d]
    /\ Cardinality(ColumnsOf("Goles")) = 2
    /\ Len(ret.data) = 1
    /\ \E j \in DOMAIN ret.columns :
          /\ ret.columns[j] = "Goles"
          /\ ret.data[1][j] = Number(FALSE, 31, "")

\* C3: for CategorySets of equal row count n the unified table has exactly
\* n rows, labelled 0..n-1, and row i holds in every column the value of
\* row i of the set the column came from, whatever the player of that row.
C3_PositionalMerge ==
    (Built /\ AllFetched /\ Cardinality(RowCounts) = 1) =>
        /\ ret.kind = "DataFrame"
        /\ RowCounts = {Len(ret.data)}
        /\ ret.index = RangeIndex(Len(ret.data))
        /\ \A r \in DOMAIN ret.data : \A j \in DOMAIN ret.columns :
              \E a \in ColumnsOf(ret.columns[j]) :
                  ret.data[r][j] = Typed(j, CategorySets[a[1]].data[r][a[2]])

\* the two sets list different players in row 1 and are merged all the same
C3_Witness ==
    /\ Built
    /\ AllFetched
    /\ call.fn = "creacion_df_porteros_fbref"
    /\ RowCounts = {2}
    /\ CategorySets[1].data[1][1] = Str("Pedri")
    /\ CategorySets[2].data[1][1] = Str("Harry Kane")
    /\ Len(ret.data) = 2
    /\ ret.data[1][1] = Str("Pedri")
    /\ \E j \in DOMAIN ret.columns :
          /\ ret.columns[j] = "xGOT recibido"
          /\ ret.data[1][j] = Number(FALSE, 13, "")

\* C16 (as claimed): in the unified table every column beyond the first 7
\* holds the number read after commas are turned into dots and percent
\* signs are deleted ("12,5" ends as 12.5, "75%" as 75), missing where there
\* is none, and the first 7 columns hold the cells as they were.
C16_MergeUsesCoercionRule ==
    (Built /\ AllFetched) =>
        /\ ret.kind = "DataFrame"
        /\ \A j \in DOMAIN ret.columns : \A r \in DOMAIN ret.data :
              ret.data[r][j] =
                  LET cell == SourceCell(Earliest(ColumnsOf(ret.columns[j])), r)
                  IN  IF j <= IdentityColumns THEN cell
                      ELSE IF IsStr(cell)
                           THEN parse_number(ReplaceChar(ReplaceChar(cell.str, ",", "."),
                                                         "%", ""))
                           ELSE to_numeric(cell)

\* a fetch failed when extract_tables printed one of its error messages
FetchFailed(f) ==
    \E i \in DOMAIN f.out.events :
        f.out.events[i] \in {"Error al obtener la URL", "Error con pandas.read_html",
                             "Error con BeautifulSoup"}

\* C21 (as claimed): within one build for a requested league and season,
\* every category fetch, the Playing Time fetch included, is issued with
\* exactly that league and that season.
C21_FetchesUseRequestedPopulation ==
    Built => \A k \in DOMAIN fetches :
                 /\ fetches[k].request.league = call.league
                 /\ fetches[k].request.season = call.season

\* the table pandas.read_html parsed for a fetch, and its keys once flattened
RawTable(f) == site_at(call.web, f.out.url.value).tables[1]

RawKeys(f) == format_dataframe_columns(RawTable(f), f.request.stat).columns

NumericText(c) == IsStr(c) /\ IsNumber(parse_number(c.str))

\* every table of the build was parsed directly, has a two-level header
\* whose keys are all in the lookup, and only numeric text in its cells
NumericSources ==
    /\ Built
    /\ \A k \in DOMAIN fetches :
          /\ ~FetchFailed(fetches[k])
          /\ fetches[k].out.events = <<"read_html">>
          /\ RawTable(fetches[k]).multi
          /\ \A c \in DOMAIN RawKeys(fetches[k]) : mapeo_has(RawKeys(fetches[k])[c])
          /\ \A r \in DOMAIN RawTable(fetches[k]).data :
                \A c \in DOMAIN RawTable(fetches[k]).data[r] :
                    NumericText(RawTable(fetches[k]).data[r][c])

\* C25 (as claimed): for raw tables with a two-level header whose keys are
\* all in the lookup and whose cells are all numeric text, flattening,
\* canonical renaming and the typed merge yield one record per data row,
\* keyed by the canonical names, in which every value is the number written
\* in the cell and none is missing (cells "10" and "5" under Gls and Ast of
\* Standard Stats give goals 10 and assists 5).
C25_NumericTableEndToEnd ==
    NumericSources =>
        /\ ret.kind = "DataFrame"
        /\ \A k \in DOMAIN fetches : Len(RawTable(fetches[k]).data) = Len(ret.data)
        /\ Range(ret.columns) =
              UNION {{mapeo_get(RawKeys(fetches[k])[c]) :
                         c \in DOMAIN RawKeys(fetches[k])} : k \in DOMAIN fetches}
        /\ \A r \in DOMAIN ret.data : \A j \in DOMAIN ret.columns :
              /\ IsNumber(ret.data[r][j])
              /\ \E k \in DOMAIN fetches : \E c \in DOMAIN RawKeys(fetches[k]) :
                    /\ mapeo_get(RawKeys(fetches[k])[c]) = ret.columns[j]
                    /\ ret.data[r][j] =
                          parse_number(RawTable(fetches[k]).data[r][c].str)

Distinct(s) == Cardinality(Range(s)) = Len(s)

\* the names two different keys of the sequence are both renamed to
SharedNames(keys) ==
    {mapeo_get(keys[a]) : a \in {x \in DOMAIN keys :
        /\ mapeo_has(keys[x])
        /\ \E y \in DOMAIN keys :
              /\ keys[y] # keys[x]
              /\ mapeo_has(keys[y])
              /\ mapeo_get(keys[y]) = mapeo_get(keys[x])}}

\* C29 (as claimed): within one category no two different flattened keys
\* have the same canonical name, so a fetched table with distinct keys is
\* renamed to a table with distinct column names.
C29_LookupInjectivePerCategory ==
    Built => \A k \in DOMAIN fetches :
                 (fetches[k].out.df # None /\ dfs[k].kind = "DataFrame") =>
                     /\ SharedNames(fetches[k].out.df.columns) = {}
                     /\ Distinct(fetches[k].out.df.columns) => Distinct(dfs[k].columns)

\* C22 (as claimed): when the fetch of any contributing category failed, the
\* build produces no unified dataset.
C22_FailedFetchAbortsBuild ==
    (Built /\ \E k \in DOMAIN fetches : FetchFailed(fetches[k])) =>
        ret.kind = "Raise"

(***************************************************************************)
(* Bounded inputs of the text normalization of formatear_datos: one        *)
(* identity column of a flattened Standard Stats table, its cells as       *)
(* pandas.read_html delivers them (stripped, on one line) or the 0 that    *)
(* extract_tables fills in for a missing value                             *)
(***************************************************************************)
NationKey == "Nation (Unnamed: 2_level_0 - Standard Stats)"

AgeKey == "Age (Unnamed: 6_level_0 - Standard Stats)"

CompKey == "Comp (Unnamed: 5_level_0 - Standard Stats)"

NationCells ==
    {Str("es ESP"), Str("eng ENG"), Str("ESP"), Str("xk XK"), Str("esp"),
     Str("es ESP1"), Str("es"), Str("ENGesp"), IntCell(0)}

AgeCells ==
    {Str("26-050"), Str("21-100"), Str("17-003"), Str("9-000"), Str("30"),
     Str("-050"), IntCell(0)}

CompCells ==
    {Str("es La Liga"), Str("1. La Liga"), Str("de Bundesliga"),
     Str("eng Premier League"), Str("1.\tLigue 1"), Str("Bundesliga"),
     Str("La Liga"), IntCell(0)}

IdentityCells(key) ==
    IF key = NationKey THEN NationCells
    ELSE IF key = AgeKey THEN AgeCells
    ELSE CompCells

NormalizeFrames ==
    {DataFrame(FALSE, <<key>>, RangeIndex(Len(cells)),
               [r \in DOMAIN cells |-> <<cells[r]>>]) :
        <<key, cells>> \in UNION {{<<k, c>> : c \in SeqsFrom0(IdentityCells(k), MaxRows)} :
                                   k \in {NationKey, AgeKey, CompKey}}}

NormalizeCalls == {[fn |-> "formatear_datos", df |-> d] : d \in NormalizeFrames}

InitNormalize ==
    /\ pc = "call"
    /\ call \in NormalizeCalls
    /\ fetches = <<>>
    /\ dfs = <<>>
    /\ ret = None
    /\ globals = NoGlobals

NextNormalize == FormatearDatos

SpecNormalize == InitNormalize /\ [][NextNormalize]_vars

(***************************************************************************)
(* Claims about the text normalization                                     *)
(***************************************************************************)
Normalized ==
    /\ pc = "return"
    /\ call.fn = "formatear_datos"
    /\ call.df.kind = "DataFrame"

\* the text of the raw cell in row r, column p
RawText(r, p) == astype_str(call.df.data[r][p])

\* the last k characters of s
Suffix(s, k) == SubSeq(s, Len(s) - k + 1, Len(s))

\* s ends in a token of exactly three letters A-Z
EndsInCode(s) ==
    /\ Len(s) >= 3
    /\ \A i \in (Len(s) - 2)..Len(s) : Char(s, i) \in UpperAZ
    /\ Len(s) > 3 => Char(s, Len(s) - 3) \notin UpperAZ

\* s does not end in a letter A-Z
NoTrailingToken(s) == Len(s) = 0 \/ Char(s, Len(s)) \notin UpperAZ

\* C11: a nationality cell that ends in a 3-letter uppercase token becomes
\* exactly that token, a cell with no trailing uppercase token (the 0 of a
\* missing value included) becomes missing, and no cell makes the step fail.
C11_NationalityToken ==
    Normalized =>
        /\ ret.kind = "DataFrame"
        /\ \A p \in Positions(ret.columns, "Nacionalidad") :
              \A r \in DOMAIN ret.data :
                  /\ EndsInCode(RawText(r, p)) =>
                         ret.data[r][p] = Str(Suffix(RawText(r, p), 3))
                  /\ NoTrailingToken(RawText(r, p)) => ret.data[r][p] = NaN

\* a table with a flag-and-code cell and a cell filled with 0
C11_Witness ==
    /\ Normalized
    /\ ret.columns = <<"Nacionalidad">>
    /\ call.df.data = <<<<Str("eng ENG")>>, <<IntCell(0)>>>>
    /\ ret.data = <<<<Str("ENG")>>, <<NaN>>>>

\* the position of the first whitespace character of s, 0 if there is none
FirstWhitespace(s) ==
    IF \E i \in 1..Len(s) : Char(s, i) \in Whitespace
    THEN CHOOSE i \in 1..Len(s) :
             /\ Char(s, i) \in Whitespace
             /\ \A j \in 1..(i - 1) : Char(s, j) \notin Whitespace
    ELSE 0

\* s is a prefix, whitespace and a name
PrefixedName(s) ==
    /\ FirstWhitespace(s) > 1
    /\ FirstWhitespace(s) < Len(s)

\* C13: a competition cell made of a prefix, whitespace and a name becomes
\* exactly the text after the first whitespace character, further
\* whitespace inside the name included.
C13_CompetitionName ==
    Normalized =>
        \A p \in Positions(ret.columns, "Competicion") :
            \A r \in DOMAIN ret.data :
                PrefixedName(RawText(r, p)) =>
                    ret.data[r][p] =
                        Str(SubSeq(RawText(r, p), FirstWhitespace(RawText(r, p)) + 1,
                                   Len(RawText(r, p))))

\* a name of two words after the prefix
C13_Witness ==
    /\ Normalized
    /\ ret.columns = <<"Competicion">>
    /\ call.df.data = <<<<Str("eng Premier League")>>, <<Str("1. La Liga")>>>>
    /\ ret.data = <<<<Str("Premier League")>>, <<Str("La Liga")>>>>

(***************************************************************************)
(* procesar_posiciones                                                     *)
(***************************************************************************)
\* mapping = {'MF': 'Midfielder', 'DF': 'Defender', 'FW': 'Forward',
\*            'GK': 'Goalkeeper'}
mapping ==
    [t \in {"MF", "DF", "FW", "GK"} |->
        CASE t = "MF" -> "Midfielder"
          [] t = "DF" -> "Defender"
          [] t = "FW" -> "Forward"
          [] t = "GK" -> "Goalkeeper"]

\* Series.replace(mapping): a value equal to a key becomes the key's value
replace_mapping(c) ==
    IF IsStr(c) /\ c.str \in DOMAIN mapping THEN Str(mapping[c.str]) ELSE c

\* Series.str[a:b] with 0 <= a <= b: the characters a..b-1 of a text cell,
\* NaN for a cell that is not text
str_slice(c, a, b) ==
    IF IsStr(c)
    THEN Str(SubSeq(c.str, a + 1, IF b < Len(c.str) THEN b ELSE Len(c.str)))
    ELSE NaN

\* df[columna].str[:2].replace(mapping)
posicion_principal(c) == replace_mapping(str_slice(c, 0, 2))

\* mutant: the secondary token is read from the separator on
posicion_2_from_separator(c) ==
    replace_mapping(str_slice(c, 2, IF IsStr(c) THEN Len(c.str) ELSE 0))

\* df[columna].str[3:].replace(mapping)
posicion_2(c) == replace_mapping(str_slice(c, 3, IF IsStr(c) THEN Len(c.str) ELSE 0))

\* df[name] = values: the column called name is overwritten, a new name is
\* appended as the last column
set_column(df, name, values) ==
    IF Positions(df.columns, name) = {}
    THEN [df EXCEPT !.columns = Append(@, name),
                    !.data = [r \in DOMAIN df.data |-> Append(df.data[r], values[r])]]
    ELSE [df EXCEPT !.data = [r \in DOMAIN df.data |->
            [c \in DOMAIN df.data[r] |->
                IF df.columns[c] = name THEN values[r] ELSE df.data[r][c]]]]

\* df.drop(columns=[name])
drop_column(df, name) ==
    select_columns(df, DOMAIN df.columns \ Positions(df.columns, name))

\* the .str accessor needs text: a column whose values are all numbers has
\* none
has_str_accessor(cells) ==
    \/ \A r \in DOMAIN cells : IsMissing(cells[r])
    \/ \E r \in DOMAIN cells : IsStr(cells[r])

procesar_posiciones(df, columna) ==
    IF df.kind # "DataFrame" THEN Raise("AttributeError")
    ELSE IF Positions(df.columns, columna) = {} THEN Raise("KeyError")
    ELSE IF Cardinality(Positions(df.columns, columna)) > 1
         THEN Raise("AttributeError")
    ELSE LET p == CHOOSE c \in DOMAIN df.columns : df.columns[c] = columna
             raw == [r \in DOMAIN df.data |-> df.data[r][p]]
         IN  IF ~has_str_accessor(raw) THEN Raise("AttributeError")
             ELSE drop_column(
                    set_column(
                      set_column(df, "Posicion_principal",
                                 [r \in DOMAIN raw |-> posicion_principal(raw[r])]),
                      "Posicion_2", [r \in DOMAIN raw |-> posicion_2(raw[r])]),
                    columna)

(***************************************************************************)
(* Bounded inputs of procesar_posiciones                                   *)
(***************************************************************************)
PositionCells ==
    {Str("GK"), Str("DF"), Str("MF"), Str("FW"), Str("MF,FW"), Str("FW,MF"),
     Str("DF,MF"), Str("FW,DF"), Str("XX"), Str("MF,XX"), Str("XX,MF"),
     Str(""), NaN}

PositionFrames ==
    {DataFrame(FALSE, <<"Player", "Posicion", "Goles">>, RangeIndex(Len(cells)),
               [r \in DOMAIN cells |->
                   <<Str("Pedri"), cells[r], Number(FALSE, r, "")>>]) :
        cells \in SeqsFrom0(PositionCells, MaxRows)}
    \cup {DataFrame(FALSE, <<"Player", "Goles">>, RangeIndex(1),
                    <<<<Str("Pedri"), Number(FALSE, 1, "")>>>>)}

PositionCalls ==
    {[fn |-> "procesar_posiciones", df |-> d, columna |-> "Posicion"] :
        d \in PositionFrames}

ProcesarPosiciones ==
    /\ pc = "call"
    /\ call.fn = "procesar_posiciones"
    /\ ret' = procesar_posiciones(call.df, call.columna)
    /\ pc' = "return"
    /\ UNCHANGED <<call, fetches, dfs, globals>>

InitPositions ==
    /\ pc = "call"
    /\ call \in PositionCalls
    /\ fetches = <<>>
    /\ dfs = <<>>
    /\ ret = None
    /\ globals = NoGlobals

NextPositions == ProcesarPosiciones

SpecPositions == InitPositions /\ [][NextPositions]_vars

(***************************************************************************)
(* Claims about procesar_posiciones                                        *)
(***************************************************************************)
Processed ==
    /\ pc = "return"
    /\ call.fn = "procesar_posiciones"
    /\ call.columna \in Range(call.df.columns)

\* the raw position code of row r
RawCode(r) ==
    call.df.data[r][CHOOSE c \in DOMAIN call.df.columns :
                        call.df.columns[c] = call.columna]

\* the role of row r held in the column called name of the result
Role(r, name) ==
    ret.data[r][CHOOSE c \in DOMAIN ret.columns : ret.columns[c] = name]

Abbreviations == {"GK", "DF", "MF", "FW"}

RoleNames == {"Goalkeeper", "Defender", "Midfielder", "Forward"}

\* the vocabulary of the specification, written out
VocabularyName(t) ==
    CASE t = "GK" -> "Goalkeeper"
      [] t = "DF" -> "Defender"
      [] t = "MF" -> "Midfielder"
      [] t = "FW" -> "Forward"

\* C18: a code "A,B" of vocabulary abbreviations gives the vocabulary name
\* of A as primary and of B as secondary role, a one-token code "A" the
\* vocabulary name of A as primary role; the raw column is removed.
C18_PositionDecomposed ==
    Processed =>
        /\ ret.kind = "DataFrame"
        /\ call.columna \notin Range(ret.columns)
        /\ Len(ret.data) = Len(call.df.data)
        /\ \A r \in DOMAIN ret.data :
              /\ \A a \in Abbreviations :
                    RawCode(r) = Str(a) =>
                        Role(r, "Posicion_principal") = Str(VocabularyName(a))
              /\ \A a, b \in Abbreviations :
                    RawCode(r) = Str(a \o "," \o b) =>
                        /\ Role(r, "Posicion_principal") = Str(VocabularyName(a))
                        /\ Role(r, "Posicion_2") = Str(VocabularyName(b))

\* "MF,FW" gives Midfielder/Forward and "DF" gives Defender
C18_Witness ==
    /\ Processed
    /\ ret.kind = "DataFrame"
    /\ Len(ret.data) = 2
    /\ RawCode(1) = Str("MF,FW")
    /\ Role(1, "Posicion_principal") = Str("Midfielder")
    /\ Role(1, "Posicion_2") = Str("Forward")
    /\ RawCode(2) = Str("DF")
    /\ Role(2, "Posicion_principal") = Str("Defender")

\* a text of spaces only, or the empty text
Blank(s) == \A i \in 1..Len(s) : Char(s, i) \in Whitespace

\* C19 (as claimed): for a code with no secondary token the secondary role
\* held in the dataset is a marker text, never an empty or blank text.
C19_SecondaryNeverBlank ==
    (Processed /\ ret.kind = "DataFrame") =>
        \A r \in DOMAIN ret.data :
            (IsStr(RawCode(r)) /\ RawCode(r).str \in Abbreviations) =>
                /\ IsStr(Role(r, "Posicion_2"))
                /\ ~Blank(Role(r, "Posicion_2").str)

\* a role of the vocabulary, or no role
RoleOrNone(c) ==
    \/ IsMissing(c)
    \/ IsStr(c) /\ (c.str \in RoleNames \/ Blank(c.str))

\* C20 (as claimed): when a token is not a vocabulary abbreviation the call
\* reports an error; no value outside the four role names and the marker
\* of no role is returned as a role.
C20_UnknownTokenReported ==
    Processed =>
        \/ ret.kind = "Raise"
        \/ \A r \in DOMAIN ret.data :
              /\ RoleOrNone(Role(r, "Posicion_principal"))
              /\ RoleOrNone(Role(r, "Posicion_2"))

(***************************************************************************)
(* convertir_columnas_numericas_goalkeepers / _jugadores                   *)
(***************************************************************************)
\* col.replace({',': '.', '%': ''}, regex=True) on one cell: only text is
\* rewritten
replace_separators(c) ==
    IF IsStr(c) THEN Str(ReplaceChar(ReplaceChar(c.str, ",", "."), "%", "")) ELSE c

\* mutant: the percent sign is left in the text
coerce_column_keep_percent(cells) ==
    [r \in DOMAIN cells |->
        to_numeric(IF IsStr(cells[r])
                   THEN Str(ReplaceChar(cells[r].str, ",", "."))
                   ELSE cells[r])]

\* mutant: errors='raise' caught per column: one bad cell voids the column
coerce_column_all_or_nothing(cells) ==
    IF \E r \in DOMAIN cells :
           ~IsMissing(cells[r]) /\ to_numeric(replace_separators(cells[r])) = NaN
    THEN [r \in DOMAIN cells |-> NaN]
    ELSE [r \in DOMAIN cells |-> to_numeric(replace_separators(cells[r]))]

\* lambda col: pd.to_numeric(col.replace(...), errors='coerce')
coerce_column(cells) ==
    [r \in DOMAIN cells |-> to_numeric(replace_separators(cells[r]))]

\* df[cols] = df[cols].apply(lambda col: ...): column by column
coerce_span(df, span) ==
    LET converted == [c \in span |->
                         coerce_column([r \in DOMAIN df.data |-> df.data[r][c]])]
    IN  [df EXCEPT !.data = [r \in DOMAIN df.data |->
            [c \in DOMAIN df.data[r] |->
                IF c \in span THEN converted[c][r] ELSE df.data[r][c]]]]

\* df.columns.get_loc(columna_inicio) + 1, as a 1-based position; a label
\* that is missing or repeated gives no integer
first_converted(df, columna_inicio) ==
    IF Positions(df.columns, columna_inicio) = {} THEN Raise("KeyError")
    ELSE IF Cardinality(Positions(df.columns, columna_inicio)) > 1
         THEN Raise("TypeError")
    ELSE [kind |-> "int",
          value |-> (CHOOSE c \in DOMAIN df.columns :
                         df.columns[c] = columna_inicio) + 1]

convertir_columnas_numericas_goalkeepers(df, columna_inicio) ==
    LET loc == first_converted(df, columna_inicio)
    IN  IF loc.kind = "Raise" THEN loc
        ELSE coerce_span(df, loc.value..Len(df.columns))

convertir_columnas_numericas_jugadores(df, columna_inicio) ==
    LET loc == first_converted(df, columna_inicio)
    IN  IF loc.kind = "Raise" THEN loc
        ELSE coerce_span(df, loc.value..(Len(df.columns) - 2))

(***************************************************************************)
(* Bounded inputs of the numeric coercion                                  *)
(***************************************************************************)
CoerceCells ==
    {Str("12,5"), Str("75%"), Str("26"), Str("3.50"), Str("abc"),
     Str("1,2,3"), Str(""), Str("-4"), IntCell(0), Number(FALSE, 2, "5"), NaN}

CoerceLayouts ==
    {<<"Player", "Competicion", "Edad", "Goles">>,
     <<"Player", "Competicion", "Edad", "Goles", "Posicion_principal",
       "Posicion_2">>,
     <<"Player", "Edad", "Goles">>}

\* one cell of a row under the column called name; x is the cell that varies
CoerceCell(name, x) ==
    CASE name = "Player" -> Str("Pedri")
      [] name = "Competicion" -> Str("La Liga")
      [] name = "Edad" -> x
      [] name = "Goles" -> Str("7")
      [] name = "Posicion_principal" -> Str("Midfielder")
      [] OTHER -> Str("")

CoerceFrames ==
    {DataFrame(FALSE, cols, RangeIndex(Len(cells)),
               [r \in DOMAIN cells |->
                   [c \in DOMAIN cols |-> CoerceCell(cols[c], cells[r])]]) :
        cols \in CoerceLayouts, cells \in SeqsFrom0(CoerceCells, MaxRows)}

CoerceCalls ==
    {[fn |-> f, df |-> d, columna_inicio |-> "Competicion"] :
        f \in {"convertir_columnas_numericas_goalkeepers",
               "convertir_columnas_numericas_jugadores"},
        d \in CoerceFrames}

ConvertirGoalkeepers ==
    /\ pc = "call"
    /\ call.fn = "convertir_columnas_numericas_goalkeepers"
    /\ ret' = convertir_columnas_numericas_goalkeepers(call.df, call.columna_inicio)
    /\ pc' = "return"
    /\ UNCHANGED <<call, fetches, dfs, globals>>

ConvertirJugadores ==
    /\ pc = "call"
    /\ call.fn = "convertir_columnas_numericas_jugadores"
    /\ ret' = convertir_columnas_numericas_jugadores(call.df, call.columna_inicio)
    /\ pc' = "return"
    /\ UNCHANGED <<call, fetches, dfs, globals>>

InitCoerce ==
    /\ pc = "call"
    /\ call \in CoerceCalls
    /\ fetches = <<>>
    /\ dfs = <<>>
    /\ ret = None
    /\ globals = NoGlobals

NextCoerce == ConvertirGoalkeepers \/ ConvertirJugadores

SpecCoerce == InitCoerce /\ [][NextCoerce]_vars

(***************************************************************************)
(* Claims about the numeric coercion                                       *)
(***************************************************************************)
Coerced ==
    /\ pc = "return"
    /\ call.fn \in {"convertir_columnas_numericas_goalkeepers",
                    "convertir_columnas_numericas_jugadores"}
    /\ call.columna_inicio \in Range(call.df.columns)

\* the position of the boundary column
Boundary ==
    CHOOSE c \in DOMAIN call.df.columns : call.df.columns[c] = call.columna_inicio

\* the columns of the coerced span of the claim
Span ==
    IF call.fn = "convertir_columnas_numericas_goalkeepers"
    THEN {c \in DOMAIN call.df.columns : c > Boundary}
    ELSE {c \in DOMAIN call.df.columns :
             c > Boundary /\ c <= Len(call.df.columns) - 2}

\* the text with every comma turned into a dot and every percent sign gone
RECURSIVE CleanText(_)
CleanText(s) ==
    IF s = "" THEN ""
    ELSE LET h == Char(s, 1)
             t == CleanText(SubSeq(s, 2, Len(s)))
         IN  IF h = "," THEN "." \o t ELSE IF h = "%" THEN t ELSE h \o t

\* the number a cell stands for under the coercion rule, NaN if none
Expected(c) == IF IsStr(c) THEN parse_number(CleanText(c.str)) ELSE to_numeric(c)

\* C15: every cell of the span after the boundary column (to the end for
\* goalkeepers, to two columns before the end for outfield players) becomes
\* the number read after commas are turned into dots and percent signs are
\* deleted, missing (never zero) if there is none; all other columns are
\* left unchanged.
C15_CoercionRule ==
    Coerced =>
        /\ ret.kind = "DataFrame"
        /\ ret.columns = call.df.columns
        /\ \A r \in DOMAIN call.df.data : \A c \in DOMAIN call.df.columns :
              /\ c \in Span => ret.data[r][c] = Expected(call.df.data[r][c])
              /\ c \in Span /\ Expected(call.df.data[r][c]) = NaN
                 => ~IsNumber(ret.data[r][c])
              /\ c \notin Span => ret.data[r][c] = call.df.data[r][c]

\* an outfield table with a comma cell and a percent cell: both are numbers,
\* the boundary column and the last two columns are as before
C15_Witness ==
    /\ Coerced
    /\ call.fn = "convertir_columnas_numericas_jugadores"
    /\ Len(call.df.columns) = 6
    /\ Len(call.df.data) = 2
    /\ call.df.data[1][3] = Str("12,5")
    /\ call.df.data[2][3] = Str("75%")
    /\ ret.data[1] = <<Str("Pedri"), Str("La Liga"), Number(FALSE, 12, "5"),
                       Number(FALSE, 7, ""), Str("Midfielder"), Str("")>>
    /\ ret.data[2][3] = Number(FALSE, 75, "")

\* what the coercion makes of one cell when it is the only cell of the span
Alone(c) ==
    convertir_columnas_numericas_goalkeepers(
        DataFrame(FALSE, <<"Competicion", "x">>, RangeIndex(1),
                  <<<<Str("La Liga"), c>>>>), "Competicion").data[1][2]

\* C17: the coercion finishes without error and keeps the rows and the
\* columns; exactly the cells that cannot be parsed become missing and every
\* other cell of the span gets the number it gets when no other cell is
\* there.
C17_FailureIsolated ==
    Coerced =>
        /\ ret.kind = "DataFrame"
        /\ ret.columns = call.df.columns
        /\ ret.index = call.df.index
        /\ Len(ret.data) = Len(call.df.data)
        /\ \A r \in DOMAIN call.df.data : \A c \in Span :
              /\ ret.data[r][c] = Alone(call.df.data[r][c])
              /\ ret.data[r][c] = NaN <=>
                    \/ IsMissing(call.df.data[r][c])
                    \/ IsStr(call.df.data[r][c])
                          /\ parse_number(CleanText(call.df.data[r][c].str)) = NaN

\* an unparsable cell above a parsable one in the same column
C17_Witness ==
    /\ Coerced
    /\ Len(call.df.data) = 2
    /\ 3 \in Span
    /\ call.df.data[1][3] = Str("abc")
    /\ call.df.data[2][3] = Str("12,5")
    /\ ret.data[1][3] = NaN
    /\ ret.data[2][3] = Number(FALSE, 12, "5")
    /\ ret.data[2][4] = Number(FALSE, 7, "")

(***************************************************************************)
(* One category of a builder: extract_tables, then formatear_datos         *)
(***************************************************************************)
CategoryArgs ==
    {[league |-> l, stat |-> s] :
        l \in {"La Liga", "Bundesliga", "Big 5 European Leagues"},
        s \in {"Standard Stats", "Shooting"}}

CategoryCalls ==
    {[fn |-> "fetch_category",
      web |-> WebFor([league |-> a.league, season |-> "2024-2025", stat |-> a.stat], w),
      league |-> a.league, stat |-> a.stat] :
        w \in Sites, a \in CategoryArgs}
    \cup
    {[fn |-> "fetch_category", web |-> WebOf(rows, "Shooting", rows),
      league |-> "Big 5 European Leagues", stat |-> s] :
        rows \in RowLists, s \in {"Standard Stats", "Shooting"}}

FetchCategory ==
    /\ pc = "call"
    /\ call.fn = "fetch_category"
    /\ ret' = fetch_category(call.web, call.league, call.stat)
    /\ pc' = "return"
    /\ UNCHANGED <<call, fetches, dfs, globals>>

InitCategory ==
    /\ pc = "call"
    /\ call \in CategoryCalls
    /\ fetches = <<>>
    /\ dfs = <<>>
    /\ ret = None
    /\ globals = NoGlobals

NextCategory == FetchCategory

SpecCategory == InitCategory /\ [][NextCategory]_vars

(***************************************************************************)
(* Claims about the records of one category                                *)
(***************************************************************************)
CategoryFetched == pc = "return" /\ call.fn = "fetch_category"

StartsWith(s, prefix) ==
    Len(s) >= Len(prefix) /\ SubSeq(s, 1, Len(prefix)) = prefix

\* the table has a column that came from the heading called field, under
\* its flattened key or under its canonical name
Lists(field, canonical) ==
    \E c \in DOMAIN ret.columns :
        StartsWith(ret.columns[c], field \o " (") \/ ret.columns[c] = canonical

\* every record has a value in exactly one column called name
Present(name) ==
    /\ Cardinality(Positions(ret.columns, name)) = 1
    /\ \A p \in Positions(ret.columns, name) : \A r \in DOMAIN ret.data :
          /\ ~IsMissing(ret.data[r][p])
          /\ ret.data[r][p] # Str("")

\* C14 (as claimed): whichever strategy fetched the table and whichever
\* league was asked for, every record of a table that lists player, squad
\* and competition has the three under their canonical names with a value.
C14_IdentityFieldsPresent ==
    (CategoryFetched /\ ret.kind = "DataFrame"
        /\ Lists("Player", "Player") /\ Lists("Squad", "Equipo")
        /\ Lists("Comp", "Competicion")) =>
        /\ Present("Player")
        /\ Present("Equipo")
        /\ Present("Competicion")

(***************************************************************************)
(* The script: the module-level statements that build the two datasets     *)
(* and the position views of the analysis tab                              *)
(***************************************************************************)
\* df[df['Competicion'] == 'La Liga'].reset_index(drop=True)
la_liga(df) ==
    IF Positions(df.columns, "Competicion") = {} THEN Raise("KeyError")
    ELSE LET p == CHOOSE c \in DOMAIN df.columns : df.columns[c] = "Competicion"
         IN  reset_index(filter_rows(df,
                 {r \in DOMAIN df.data : df.data[r][p] = Str("La Liga")}))

\* df['Nacimiento'] = df['Nacimiento'].astype(str)
nacimiento_as_text(df) ==
    IF df.kind # "DataFrame" THEN df
    ELSE IF Positions(df.columns, "Nacimiento") = {} THEN Raise("KeyError")
    ELSE [df EXCEPT !.data = [r \in DOMAIN df.data |->
            [c \in DOMAIN df.data[r] |->
                IF df.columns[c] = "Nacimiento" THEN Str(astype_str(df.data[r][c]))
                ELSE df.data[r][c]]]]

\* traduccion_posiciones (its keys)
traduccion_posiciones == {"Midfielder", "Defender", "Forward", "Goalkeeper"}

\* df['Posicion_principal'].unique().tolist()
posiciones_originales(df) ==
    LET p == CHOOSE c \in DOMAIN df.columns : df.columns[c] = "Posicion_principal"
    IN  {df.data[r][p] : r \in DOMAIN df.data}

\* df[df['Posicion_principal'] == role].copy() with
\* df['Posicion_2'].fillna('').apply(lambda x: x if x.strip() else 'No encontrado')
role_view(df, role) ==
    LET p == CHOOSE c \in DOMAIN df.columns : df.columns[c] = "Posicion_principal"
        rows == filter_rows(df, {r \in DOMAIN df.data : df.data[r][p] = Str(role)})
    IN  [rows EXCEPT !.data = [r \in DOMAIN rows.data |->
            [c \in DOMAIN rows.data[r] |->
                IF rows.columns[c] # "Posicion_2" THEN rows.data[r][c]
                ELSE IF IsMissing(rows.data[r][c]) THEN Str("No encontrado")
                ELSE IF IsStr(rows.data[r][c])
                        /\ \A i \in 1..Len(rows.data[r][c].str) :
                               Char(rows.data[r][c].str, i) \in Whitespace
                     THEN Str("No encontrado")
                ELSE rows.data[r][c]]]]

(***************************************************************************)
(* Bounded inputs of the script: the Big 5 pages it reads                  *)
(***************************************************************************)
ScriptRoster ==
    {[rk |-> "1", name |-> "Pedri", nation |-> "es ESP", pos |-> "MF,FW",
      squad |-> "Barcelona", comp |-> "es La Liga", age |-> "21-100",
      born |-> "2002", mp |-> "5", n |-> "3"],
     [rk |-> "2", name |-> "Jan Oblak", nation |-> "si SVN", pos |-> "GK",
      squad |-> "Atletico Madrid", comp |-> "es La Liga", age |-> "31-250",
      born |-> "1993", mp |-> "4", n |-> "2"],
     [rk |-> "3", name |-> "Pau Cubarsi", nation |-> "es ESP", pos |-> "DF",
      squad |-> "Barcelona", comp |-> "es La Liga", age |-> "17-300",
      born |-> "2007", mp |-> "2", n |-> "4"],
     [rk |-> "4", name |-> "Harry Kane", nation |-> "eng ENG", pos |-> "FW",
      squad |-> "Bayern Munich", comp |-> "de Bundesliga", age |-> "30-200",
      born |-> "1993", mp |-> "6", n |-> "1"]}

\* every category page lists the same players, in the same order
ScriptCalls ==
    {[fn |-> "script", web |-> WebOf(rows, "Shooting", rows), rows |-> rows] :
        rows \in SeqsFrom0(ScriptRoster, MaxPlayers)}

\* an exception ends the run of the script
Abort(exc) ==
    /\ pc' = "error"
    /\ ret' = exc
    /\ UNCHANGED <<call, globals>>

\* main.py:703  df_general_final = creacion_df_general_fbref(...)
BuildGeneral ==
    /\ pc = "L703"
    /\ dfs' = general_frames(call.web, "Big 5 European Leagues")
    /\ fetches' = issue(call.web, issued(general_requests("Big 5 European Leagues"), dfs'))
    /\ LET df == build(dfs')
       IN  IF df.kind = "Raise" THEN Abort(df)
           ELSE /\ globals' = [globals EXCEPT !.df_general_final = df]
                /\ pc' = "L708"
                /\ UNCHANGED <<call, ret>>

\* main.py:708  df_general_final = procesar_posiciones(df_general_final, ...)
SplitPositions ==
    /\ pc = "L708"
    /\ LET df == procesar_posiciones(globals.df_general_final, "Posicion")
       IN  IF df.kind = "Raise" THEN Abort(df)
           ELSE /\ globals' = [globals EXCEPT !.df_general_final = df]
                /\ pc' = "L711"
                /\ UNCHANGED <<call, ret>>
    /\ UNCHANGED <<fetches, dfs>>

\* main.py:711  df_jugadores_total_liga = df_general_final[... == 'La Liga']
FilterJugadores ==
    /\ pc = "L711"
    /\ LET df == la_liga(globals.df_general_final)
       IN  IF df.kind = "Raise" THEN Abort(df)
           ELSE /\ globals' = [globals EXCEPT !.df_jugadores_total_liga = df]
                /\ pc' = "L744"
                /\ UNCHANGED <<call, ret>>
    /\ UNCHANGED <<fetches, dfs>>

\* main.py:744  df_goalkeepers_final = creacion_df_porteros_fbref(...)
BuildPorteros ==
    /\ pc = "L744"
    /\ dfs' = goalkeeper_frames(call.web, "Big 5 European Leagues")
    /\ fetches' = issue(call.web, issued(goalkeeper_requests("Big 5 European Leagues"), dfs'))
    /\ LET df == build(dfs')
       IN  IF df.kind = "Raise" THEN Abort(df)
           ELSE /\ globals' = [globals EXCEPT !.df_goalkeepers_final = df]
                /\ pc' = "L747"
                /\ UNCHANGED <<call, ret>>

\* main.py:747  df_porteros_liga = df_goalkeepers_final[... == 'La Liga']
FilterPorteros ==
    /\ pc = "L747"
    /\ LET df == la_liga(globals.df_goalkeepers_final)
       IN  IF df.kind = "Raise" THEN Abort(df)
           ELSE /\ globals' = [globals EXCEPT !.df_porteros_liga = df]
                /\ pc' = "L1256"
                /\ UNCHANGED <<call, ret>>
    /\ UNCHANGED <<fetches, dfs>>

\* main.py:1256-1258  numeric conversion of df_jugadores_total_liga, then
\* Nacimiento as text
ConvertJugadores ==
    /\ pc = "L1256"
    /\ LET df == nacimiento_as_text(
                    convertir_columnas_numericas_jugadores(
                        globals.df_jugadores_total_liga, "Competicion"))
       IN  IF df.kind = "Raise" THEN Abort(df)
           ELSE /\ globals' = [globals EXCEPT !.df_jugadores_total_liga = df]
                /\ pc' = "L1408"
                /\ UNCHANGED <<call, ret>>
    /\ UNCHANGED <<fetches, dfs>>

\* main.py:1408-1418  the user picks one of the positions of the dataset;
\* a value outside traduccion_posiciones is offered as it is and finds no
\* key, and with no position offered nothing is picked
SelectPosition ==
    /\ pc = "L1408"
    /\ LET options == posiciones_originales(globals.df_jugadores_total_liga)
       IN  \/ \E pos \in options :
                 IF IsStr(pos) /\ pos.str \in traduccion_posiciones
                 THEN /\ globals' = [globals EXCEPT !.posicion_seleccionada = pos]
                      /\ pc' = "L1421"
                      /\ UNCHANGED <<call, ret>>
                 ELSE Abort(Raise("IndexError"))
           \/ options = {} /\ Abort(Raise("IndexError"))
    /\ UNCHANGED <<fetches, dfs>>

\* main.py:1421-1424  df_porteros_final = convertir_columnas_numericas_
\* goalkeepers(df_porteros_liga, 'Competicion'): the table is converted in
\* place, both names are bound to it
ViewGoalkeepers ==
    /\ pc = "L1421"
    /\ globals.posicion_seleccionada = Str("Goalkeeper")
    /\ LET df == convertir_columnas_numericas_goalkeepers(
                     globals.df_porteros_liga, "Competicion")
       IN  IF df.kind = "Raise" THEN Abort(df)
           ELSE /\ globals' = [globals EXCEPT !.df_porteros_liga = df,
                                              !.df_porteros_final = df]
                /\ pc' = "done"
                /\ UNCHANGED <<call, ret>>
    /\ UNCHANGED <<fetches, dfs>>

\* main.py:1462-1478  df_def / df_mid / df_fw
ViewRole ==
    /\ pc = "L1421"
    /\ globals.posicion_seleccionada # Str("Goalkeeper")
    /\ LET role == globals.posicion_seleccionada.str
           df == role_view(globals.df_jugadores_total_liga, role)
       IN  globals' = IF role = "Defender" THEN [globals EXCEPT !.df_def = df]
                      ELSE IF role = "Midfielder" THEN [globals EXCEPT !.df_mid = df]
                      ELSE [globals EXCEPT !.df_fw = df]
    /\ pc' = "done"
    /\ UNCHANGED <<call, fetches, dfs, ret>>

InitScript ==
    /\ pc = "L703"
    /\ call \in ScriptCalls
    /\ fetches = <<>>
    /\ dfs = <<>>
    /\ ret = None
    /\ globals = NoGlobals

NextScript ==
    \/ BuildGeneral
    \/ SplitPositions
    \/ FilterJugadores
    \/ BuildPorteros
    \/ FilterPorteros
    \/ ConvertJugadores
    \/ SelectPosition
    \/ ViewGoalkeepers
    \/ ViewRole

SpecScript == InitScript /\ [][NextScript]_vars

(***************************************************************************)
(* Claims about the datasets of the script                                 *)
(***************************************************************************)
\* the cell of row r of df in the column called name
Field(df, r, name) ==
    df.data[r][CHOOSE c \in DOMAIN df.columns : df.columns[c] = name]

\* the <years> of a raw age text "<years>-<days>"
RECURSIVE Years(_)
Years(s) ==
    IF s = "" \/ Char(s, 1) = "-" THEN ""
    ELSE Char(s, 1) \o Years(SubSeq(s, 2, Len(s)))

\* the raw age cell the pages give for the player of row r of df
RawAge(df, r) ==
    (CHOOSE p \in ScriptRoster : Str(p.name) = Field(df, r, "Player")).age

\* every record of df has the number <years> of its raw age cell as age
AgeIsYears(df) ==
    \A r \in DOMAIN df.data :
        Field(df, r, "Edad") = Number(FALSE, StrToNat(Years(RawAge(df, r))), "")

MatchesPlayed == {"0", "1", "5", "0.5", "-"}

PlayingTimeRoster == {[p EXCEPT !.mp = t] : p \in Roster, t \in MatchesPlayed}

PlayingTimeCalls ==
    {[fn |-> "obtener_foramtear_playingtime_jugadores",
      web |-> [u \in {Big5Url["Playing Time"]} |-> Page("Playing Time", rows)],
      league |-> l, season |-> "2024-2025", stat |-> "Playing Time"] :
        rows \in SeqsFrom0(PlayingTimeRoster \cup {HeaderRow}, MaxRows),
        l \in {"Big 5 European Leagues"}}
    \cup
    {[fn |-> "obtener_foramtear_playingtime_jugadores",
      web |-> [u \in {} |-> None],
      league |-> "La Liga", season |-> "2024-2025", stat |-> "Playing Time"]}

ObtenerPlayingTime ==
    /\ pc = "call"
    /\ call.fn = "obtener_foramtear_playingtime_jugadores"
    /\ fetches' = issue(call.web, <<playingtime_request>>)
    /\ ret' = obtener_foramtear_playingtime_jugadores(call.web, call.league,
                                                      call.season, call.stat)
    /\ pc' = "return"
    /\ UNCHANGED <<call, dfs, globals>>

InitPlayingTime ==
    /\ pc = "call"
    /\ call \in PlayingTimeCalls
    /\ fetches = <<>>
    /\ dfs = <<>>
    /\ ret = None
    /\ globals = NoGlobals

NextPlayingTime == ObtenerPlayingTime

SpecPlayingTime == InitPlayingTime /\ [][NextPlayingTime]_vars

\* the Playing Time table was fetched and the filter has run
Filtered ==
    /\ pc = "return"
    /\ call.fn = "obtener_foramtear_playingtime_jugadores"
    /\ fetches[1].out.df # None

PlayingTimeTable == fetches[1].out.df

MatchesColumn ==
    CHOOSE c \in DOMAIN PlayingTimeTable.columns :
        PlayingTimeTable.columns[c] = "MP (Playing Time - Playing Time)"

\* the rows whose matches-played text is a number of at least 1
Played ==
    {r \in DOMAIN PlayingTimeTable.data :
        LET v == to_numeric(PlayingTimeTable.data[r][MatchesColumn])
        IN  v # NaN /\ ~v.neg /\ v.whole >= 1}

NthPlayed(i) == CHOOSE r \in Played : Cardinality({q \in Played : q <= r}) = i

\* C30: the filter keeps exactly the rows of the fetched Playing Time table
\* whose matches-played value is a number >= 1, drops the rows below 1 or
\* unparsable, keeps the order of the rows kept and labels them 0..n-1.
C30_PlayingTimeFilter ==
    Filtered =>
        /\ ret.kind = "DataFrame"
        /\ ret.columns = PlayingTimeTable.columns
        /\ Len(ret.data) = Cardinality(Played)
        /\ ret.index = RangeIndex(Len(ret.data))
        /\ \A i \in DOMAIN ret.data :
              ret.data[i] =
                  [PlayingTimeTable.data[NthPlayed(i)] EXCEPT
                      ![MatchesColumn] = to_numeric(@)]

\* a row of 0.5 matches is dropped and the row after it becomes row 0
C30_Witness ==
    /\ Filtered
    /\ Len(PlayingTimeTable.data) = 2
    /\ PlayingTimeTable.data[1][MatchesColumn] = Str("0.5")
    /\ PlayingTimeTable.data[2][MatchesColumn] = Str("1")
    /\ ret.index = <<0>>
    /\ ret.data[1][1] = PlayingTimeTable.data[2][1]
    /\ ret.data[1][MatchesColumn] = Number(FALSE, 1, "")

(***************************************************************************)
(* The datasets handed to the analysis tab                                 *)
(***************************************************************************)
\* df_jugadores_total_liga and df_porteros_liga are both bound (main.py:747)
\* and the statements of the tab run
Handed == pc \in {"L1256", "L1408", "L1421"}

\* C23 (as claimed): once the unified datasets df_jugadores_total_liga and
\* df_porteros_liga are handed to the presentation layer, no later operation
\* changes their cells, column types or columns.
C23_DatasetsReadOnly ==
    [][Handed =>
          /\ globals'.df_jugadores_total_liga = globals.df_jugadores_total_liga
          /\ globals'.df_porteros_liga = globals.df_porteros_liga]_vars

IdentityNames ==
    {"Player", "Nacionalidad", "Posicion_principal", "Posicion_2", "Equipo",
     "Competicion", "Edad", "Nacimiento"}

IdentityFirst(df) ==
    /\ IdentityNames \subseteq Range(df.columns)
    /\ \A i, j \in DOMAIN df.columns :
          (df.columns[i] \in IdentityNames /\ df.columns[j] \notin IdentityNames)
              => i < j

\* C24 (as claimed): both exposed datasets contain the identity columns
\* name, nationality, primary role, secondary role, squad, competition, age
\* and birth year, and every identity column stands before every numeric
\* performance column.
C24_IdentityColumnsFirst ==
    Handed => /\ IdentityFirst(globals.df_jugadores_total_liga)
              /\ IdentityFirst(globals.df_porteros_liga)

====
